---- MODULE Spec2Model ----
(***************************************************************************)
(* State-machine model of pooow/cpro-autotest: the RAM-storage safety and  *)
(* lifecycle subsystem (infra/proxmox.py, infra/deploy.py,                 *)
(* infra/ssh_utils.py).                                                    *)
(*                                                                         *)
(* Text.  A Python str is a sequence of atoms.  An atom is a piece of text *)
(* that no operation of the program cuts: "\n" and " " are the whitespace  *)
(* atoms, ":" "#" "/" are the separators, and every other atom is a word   *)
(* ("scsi", "disk", "qcow2", "media=cdrom", ".conf", ...).  The words are  *)
(* chosen so that no searched substring straddles two atoms or lies inside *)
(* another word; str.startswith, `in`, split, strip and splitlines are     *)
(* then computed on atoms exactly as Python computes them on characters.   *)
(***************************************************************************)
EXTENDS Integers, Sequences, FiniteSets, TLC

VARIABLES
    pc,              \* position of the running function
    calls,           \* every invocation of execute_ssh_command, in order
    config_text,     \* check_vm_safety / cleanup_ram_vms: the configuration text
    target_storage,  \* check_vm_safety: target_storage; cleanup_ram_vms: storage_name
    verdict,         \* check_vm_safety: the returned value ("unset" before the call)
    dry_run,         \* the dry_run argument of the running function
    config_files,    \* cleanup_ram_vms: config_files
    file_idx,        \* cleanup_ram_vms: index of conf_path in config_files
    vm_id,           \* cleanup_ram_vms: vm_id of the current iteration
    fetched_path,    \* cleanup_ram_vms: the conf_path whose content config_text holds
    failures,        \* cleanup_ram_vms: the conf_paths its except clause logged (line 109)
    force,           \* deploy_vm: the force argument
    node_conf,       \* deploy_vm: the selected node's section of config.yaml
    client,          \* deploy_vm: the session: "None", "created", "connected", "closed"
    vm_exists,       \* deploy_vm: vm_exists
    answer,          \* deploy_vm: what input() returned ("unasked" before)
    result,          \* deploy_vm: the returned value
    outcome,         \* deploy_vm: "running", "returned", or "exit1" for sys.exit(1)
    hv,              \* the hypervisor: the VM with the requested ID
    run,             \* number of the deployment run
    prev_success,    \* the run before this one returned a record (not a dry-run)
    faults,          \* failures of the session or of a command in this run
    timeout,         \* wait_for_ip: timeout
    elapsed,         \* wait_for_ip: time.time() - start_time
    json_out,        \* wait_for_ip: json_out of the last poll that returned
    wait_result,     \* wait_for_ip: the returned value
    last_resp,       \* the session's answer to the command issued last
    interrupted,     \* an operator interrupt (SIGINT) arrived in this run
    storage_path,    \* prepare_storage: storage_path
    ram_size_gb,     \* prepare_storage: ram_size_gb
    force_remount,   \* prepare_storage: force_remount
    is_mounted,      \* prepare_storage: is_mounted
    mnt,             \* the hypervisor: what is at storage_path
    history,         \* the invocations of prepare_storage that have ended
    impl,            \* which copy of a function runs: "ssh_utils" or "deploy"
    always_errors,   \* wait_for_ip: the transport answers no poll
    ignore_flag,     \* execute_ssh_command: the ignore_errors argument
    exec_result,     \* execute_ssh_command: what the call gave
    parsed           \* parse_vm_config: the returned mapping, in insertion order

vars == <<pc, calls, config_text, target_storage, verdict, dry_run,
          config_files, file_idx, vm_id, fetched_path, failures,
          force, node_conf, client, vm_exists, answer, result, outcome, hv, run,
          prev_success, faults, timeout, elapsed, json_out, wait_result,
          last_resp, interrupted,
          storage_path, ram_size_gb, force_remount, is_mounted, mnt, history,
          impl, always_errors, ignore_flag, exec_result, parsed>>

deployLocals == <<force, node_conf, client, vm_exists, answer, result, outcome, hv, run,
                  prev_success, faults, timeout, elapsed, json_out, wait_result,
                  last_resp, interrupted>>

\* the variables of deploy_vm that wait_for_ip does not touch
deployIdle == <<force, node_conf, client, vm_exists, answer, result, outcome, hv, run,
                prev_success, faults, interrupted>>

\* the variables of deploy_vm that cleanup_ram_vms does not touch
deployQuiet == <<deployIdle, timeout, elapsed, json_out, wait_result>>

cleanupLocals == <<config_files, file_idx, vm_id, fetched_path, failures>>

storageLocals == <<storage_path, ram_size_gb, force_remount, is_mounted, mnt, history>>

utilLocals == <<impl, always_errors, ignore_flag, exec_result, parsed>>

-----------------------------------------------------------------------------
(* Bounds of the model *)

\* lines of a configuration text
MaxLines == 2

\* configuration files in a listing
MaxFiles == 2

\* deployment runs for the same VM ID
MaxRuns == 2

\* failures of the session or of a command injected in one deployment run
MaxFaults == 1

\* seconds one poll of the guest agent can take
PollDurations == {0, 1}

-----------------------------------------------------------------------------
(* Python str operations on atom sequences *)

Whitespace == {" ", "\n"}

RECURSIVE LStrip(_)
LStrip(s) == IF s # <<>> /\ Head(s) \in Whitespace THEN LStrip(Tail(s)) ELSE s

RECURSIVE RStrip(_)
RStrip(s) ==
    IF s # <<>> /\ s[Len(s)] \in Whitespace
    THEN RStrip(SubSeq(s, 1, Len(s) - 1))
    ELSE s

\* str.strip()
Strip(s) == RStrip(LStrip(s))

\* str.startswith(p)
StartsWith(s, p) == Len(p) <= Len(s) /\ SubSeq(s, 1, Len(p)) = p

\* `sub in s`
Contains(s, sub) ==
    \E i \in 0..(Len(s) - Len(sub)) : SubSeq(s, i + 1, i + Len(sub)) = sub

\* position of the first atom a in s, 0 when there is none
IndexOf(a, s) ==
    IF \E i \in 1..Len(s) : s[i] = a
    THEN CHOOSE i \in 1..Len(s) : s[i] = a /\ \A j \in 1..(i - 1) : s[j] # a
    ELSE 0

\* position of the last atom a in s, 0 when there is none
LastIndexOf(a, s) ==
    IF \E i \in 1..Len(s) : s[i] = a
    THEN CHOOSE i \in 1..Len(s) : s[i] = a /\ \A j \in (i + 1)..Len(s) : s[j] # a
    ELSE 0

\* str.splitlines(): no line for the empty text, none after a final "\n"
RECURSIVE SplitLines(_)
SplitLines(s) ==
    IF s = <<>> THEN <<>>
    ELSE LET i == IndexOf("\n", s) IN
         IF i = 0 THEN <<s>>
         ELSE <<SubSeq(s, 1, i - 1)>> \o SplitLines(SubSeq(s, i + 1, Len(s)))

\* "\n".join(lines)
RECURSIVE JoinLines(_)
JoinLines(ls) ==
    IF ls = <<>> THEN <<>>
    ELSE IF Len(ls) = 1 THEN ls[1]
    ELSE ls[1] \o <<"\n">> \o JoinLines(Tail(ls))

\* all sequences over S of length at most n
SeqsUpTo(S, n) == UNION {[1..k -> S] : k \in 0..n}

-----------------------------------------------------------------------------
(* infra/proxmox.py: parse_vm_config, is_disk_key, is_cdrom, check_vm_safety *)

\* mutant: the first occurrence of a key wins
DictPutFirstWins(config, key, value) ==
    IF \E i \in 1..Len(config) : config[i].key = key
    THEN config
    ELSE Append(config, [key |-> key, value |-> value])

\* variant: every line adds a pair, an earlier one for the same key being kept
DictPutKeepsBoth(config, key, value) == Append(config, [key |-> key, value |-> value])

\* config[key] = value on a dict kept in insertion order: a key that is
\* already there keeps its place and takes the new value
DictPut(config, key, value) ==
    IF \E i \in 1..Len(config) : config[i].key = key
    THEN [i \in 1..Len(config) |->
            IF config[i].key = key THEN [key |-> key, value |-> value] ELSE config[i]]
    ELSE Append(config, [key |-> key, value |-> value])

\* variant: the line is split on its last colon
RECURSIVE ParseLinesLastColon(_, _)
ParseLinesLastColon(lines, config) ==
    IF lines = <<>> THEN config
    ELSE LET line == Strip(Head(lines)) IN
         IF line = <<>> \/ StartsWith(line, <<"#">>)
         THEN ParseLinesLastColon(Tail(lines), config)
         ELSE IF IndexOf(":", line) # 0
         THEN LET i == LastIndexOf(":", line)
                  key == Strip(SubSeq(line, 1, i - 1))
                  value == Strip(SubSeq(line, i + 1, Len(line)))
              IN ParseLinesLastColon(Tail(lines), DictPut(config, key, value))
         ELSE ParseLinesLastColon(Tail(lines), config)

\* variant: the value keeps the whitespace that follows the colon
RECURSIVE ParseLinesRawValue(_, _)
ParseLinesRawValue(lines, config) ==
    IF lines = <<>> THEN config
    ELSE LET line == Strip(Head(lines)) IN
         IF line = <<>> \/ StartsWith(line, <<"#">>)
         THEN ParseLinesRawValue(Tail(lines), config)
         ELSE IF IndexOf(":", line) # 0
         THEN LET i == IndexOf(":", line)
                  key == Strip(SubSeq(line, 1, i - 1))
                  value == SubSeq(line, i + 1, Len(line))
              IN ParseLinesRawValue(Tail(lines), DictPut(config, key, value))
         ELSE ParseLinesRawValue(Tail(lines), config)

\* the for loop of parse_vm_config over the remaining lines
RECURSIVE ParseLines(_, _)
ParseLines(lines, config) ==
    IF lines = <<>> THEN config
    ELSE LET line == Strip(Head(lines)) IN
         IF line = <<>> \/ StartsWith(line, <<"#">>)
         THEN ParseLines(Tail(lines), config)
         ELSE IF IndexOf(":", line) # 0
         THEN LET i == IndexOf(":", line)
                  key == Strip(SubSeq(line, 1, i - 1))
                  value == Strip(SubSeq(line, i + 1, Len(line)))
              IN ParseLines(Tail(lines), DictPut(config, key, value))
         ELSE ParseLines(Tail(lines), config)

ParseVmConfig(text) == ParseLines(SplitLines(text), <<>>)

DiskPrefixes == {<<"scsi">>, <<"ide">>, <<"sata">>, <<"virtio">>, <<"efidisk">>}

IsDiskKey(key) == \E prefix \in DiskPrefixes : StartsWith(key, prefix)

\* mutant: no value is taken for a CD-ROM
IsCdromAlwaysFalse(value) == FALSE

IsCdrom(value) == Contains(value, <<"media=cdrom">>) \/ Contains(value, <<".iso">>)

StrictPattern(value) ==
    Contains(value, <<"disk">>) /\ Contains(value, <<"size">>) /\ Contains(value, <<"qcow2">>)

\* mutant: the storage check of the loop is skipped
RECURSIVE SafetyLoopNoStorageCheck(_, _, _)
SafetyLoopNoStorageCheck(items, storage, disk_found) ==
    IF items = <<>> THEN [disk_found |-> disk_found, all_disks_safe |-> TRUE]
    ELSE LET key == Head(items).key
             value == Head(items).value
         IN IF IsDiskKey(key) /\ ~IsCdrom(value)
            THEN IF ~StrictPattern(value)
                 THEN [disk_found |-> TRUE, all_disks_safe |-> FALSE]
                 ELSE SafetyLoopNoStorageCheck(Tail(items), storage, TRUE)
            ELSE SafetyLoopNoStorageCheck(Tail(items), storage, disk_found)

\* the for loop of check_vm_safety over the remaining items of the dict, with
\* its two breaks; the result is the pair of flags the loop leaves
RECURSIVE SafetyLoop(_, _, _)
SafetyLoop(items, storage, disk_found) ==
    IF items = <<>> THEN [disk_found |-> disk_found, all_disks_safe |-> TRUE]
    ELSE LET key == Head(items).key
             value == Head(items).value
         IN IF IsDiskKey(key)
            THEN IF IsCdrom(value)
                 THEN SafetyLoop(Tail(items), storage, disk_found)
                 ELSE IF ~StartsWith(value, storage \o <<":">>)
                 THEN [disk_found |-> TRUE, all_disks_safe |-> FALSE]
                 ELSE IF ~StrictPattern(value)
                 THEN [disk_found |-> TRUE, all_disks_safe |-> FALSE]
                 ELSE SafetyLoop(Tail(items), storage, TRUE)
            ELSE SafetyLoop(Tail(items), storage, disk_found)

\* mutant: the verdict forgets disk_found
CheckVmSafetyNoDiskFound(id, text, storage) ==
    SafetyLoop(ParseVmConfig(text), storage, FALSE).all_disks_safe

CheckVmSafety(id, text, storage) ==
    LET flags == SafetyLoop(ParseVmConfig(text), storage, FALSE)
    IN flags.disk_found /\ flags.all_disks_safe

-----------------------------------------------------------------------------
(* Inputs: configuration texts *)

StorageNames == {<<"ram">>, <<"local">>}

DiskKeys == {<<"scsi", "0">>, <<"scsi", "1">>, <<"ide", "2">>}

\* what follows "<storage>:" in a disk value
ValueBodies ==
    { <<"vm-", "disk", "-0.", "qcow2", ",", "size", "=32G">>,
      <<"vm-", "disk", "-0.", "qcow2">>,
      <<"vm-", "disk", "-0.", "raw", ",", "size", "=32G">>,
      <<"vm-", "root", ".", "qcow2", ",", "size", "=32G">>,
      <<"iso/image", ".iso">>,
      <<"vm-", "disk", "-0.", "qcow2", ",", "size", "=32G", ",", "media=cdrom">> }

DiskValues == {s \o <<":">> \o b : s \in StorageNames, b \in ValueBodies}

KeyLine(key, value) == key \o <<":", " ">> \o value

ConfigLines ==
    {KeyLine(k, v) : k \in DiskKeys, v \in DiskValues}
    \cup { KeyLine(<<"memory">>, <<"1024">>),
           <<>>,
           <<"#", "comment">>,
           <<"[", "snap1", "]">> }

ConfigTexts == {JoinLines(ls) : ls \in SeqsUpTo(ConfigLines, MaxLines)}

-----------------------------------------------------------------------------
(* Specification SpecSafety: check_vm_safety applied to every input *)

NoDeploy ==
    /\ force = FALSE
    /\ node_conf = <<>>
    /\ client = "None"
    /\ vm_exists = FALSE
    /\ answer = "unasked"
    /\ result = <<>>
    /\ outcome = "running"
    /\ hv = <<>>
    /\ run = 0
    /\ prev_success = FALSE
    /\ faults = 0
    /\ timeout = 0
    /\ elapsed = 0
    /\ json_out = <<>>
    /\ wait_result = <<>>
    /\ last_resp = <<>>
    /\ interrupted = FALSE

NoStorage ==
    /\ storage_path = <<>>
    /\ ram_size_gb = <<>>
    /\ force_remount = FALSE
    /\ is_mounted = FALSE
    /\ mnt = <<>>
    /\ history = <<>>

NoUtil ==
    /\ impl = "none"
    /\ always_errors = FALSE
    /\ ignore_flag = FALSE
    /\ exec_result = <<>>
    /\ parsed = <<>>

NoCleanup ==
    /\ config_files = <<>>
    /\ file_idx = 0
    /\ vm_id = <<>>
    /\ fetched_path = <<>>
    /\ failures = <<>>

InitSafety ==
    /\ pc = "call"
    /\ calls = <<>>
    /\ config_text \in ConfigTexts
    /\ target_storage \in StorageNames
    /\ verdict = "unset"
    /\ dry_run = FALSE
    /\ NoCleanup
    /\ NoDeploy
    /\ NoStorage
    /\ NoUtil

CallCheckVmSafety ==
    /\ pc = "call"
    /\ verdict' = CheckVmSafety(<<"100">>, config_text, target_storage)
    /\ pc' = "returned"
    /\ UNCHANGED <<calls, config_text, target_storage, dry_run, cleanupLocals,
                   deployLocals, storageLocals, utilLocals>>

NextSafety == CallCheckVmSafety

SpecSafety == InitSafety /\ [][NextSafety]_vars

-----------------------------------------------------------------------------
(* infra/ssh_utils.py: execute_ssh_command *)

\* the payload returned in dry-run mode
MOCK_OUTPUT_JSON == <<"MOCK_OUTPUT_JSON">>

\* What the remote side answers to one client.exec_command: transport is
\* FALSE when exec_command itself raises (the session is down), out is the
\* raw stdout and exit_status the remote exit status.
Response(transport, out, exit_status) ==
    [transport |-> transport, out |-> out, exit_status |-> exit_status]

TransportFailure == Response(FALSE, <<>>, 255)

\* no command was issued yet, or none reached the session
NoReply == Response(TRUE, <<>>, 0)

\* a line of a progress bar, dropped from the captured stdout
IsProgressLine(line) == Contains(line, <<"transferred">>) /\ Contains(line, <<"%">>)

KeepLine(line) == ~IsProgressLine(line)

FilterProgress(out_str) ==
    IF out_str = <<>> THEN out_str
    ELSE Strip(JoinLines(SelectSeq(SplitLines(out_str), KeepLine)))

\* mutant: a non-zero exit status never raises
ExecuteSshCommandNeverRaises(dry, ignore_errors, resp) ==
    IF dry THEN [raised |-> FALSE, out |-> MOCK_OUTPUT_JSON]
    ELSE IF ~resp.transport THEN [raised |-> TRUE, out |-> <<>>]
    ELSE [raised |-> FALSE, out |-> FilterProgress(Strip(resp.out))]

\* execute_ssh_command(client, command, dry_run, print_output, ignore_errors,
\* log_command) on the response resp: raised tells whether it raises, out is
\* the returned string otherwise
ExecuteSshCommand(dry, ignore_errors, resp) ==
    IF dry THEN [raised |-> FALSE, out |-> MOCK_OUTPUT_JSON]
    ELSE IF ~resp.transport THEN [raised |-> TRUE, out |-> <<>>]
    ELSE IF resp.exit_status # 0 /\ ~ignore_errors THEN [raised |-> TRUE, out |-> <<>>]
    ELSE [raised |-> FALSE, out |-> FilterProgress(Strip(resp.out))]

\* one entry of the log of invocations: the calling function, the command
\* (its fixed words and the interpolated argument) and the two flags
Call(by, cmd, arg, dry, ignore_errors) ==
    [by |-> by, cmd |-> cmd, arg |-> arg, dry_run |-> dry, ignore_errors |-> ignore_errors]

-----------------------------------------------------------------------------
(* infra/proxmox.py: cleanup_ram_vms *)

\* the atoms made of decimal digits only
DigitAtoms == {"100", "101"}

\* variant: every derived ID passes for numeric
IsDigitAlways(s) == TRUE

\* str.isdigit(): false for the empty string
IsDigit(s) == s # <<>> /\ \A i \in 1..Len(s) : s[i] \in DigitAtoms

IsNotConfSuffix(a) == a # ".conf"

\* conf_path.split("/")[-1].replace(".conf", "")
VmIdOf(conf_path) ==
    SelectSeq(SubSeq(conf_path, LastIndexOf("/", conf_path) + 1, Len(conf_path)),
              IsNotConfSuffix)

ConfPath(name) == <<"/", "etc/pve/qemu-server", "/">> \o name \o <<".conf">>

\* the files `ls /etc/pve/qemu-server/*.conf` can list
ConfPaths == {ConfPath(<<"100">>), ConfPath(<<"101">>), ConfPath(<<"backup">>)}

\* a listing names each file once
Listings ==
    {ls \in SeqsUpTo(ConfPaths, MaxFiles) :
        \A i, j \in 1..Len(ls) : i # j => ls[i] # ls[j]}

\* answers to the ls: the listing, one path per line; no match (ls fails and
\* prints nothing on stdout); or the session is down
LsResponses ==
    {Response(TRUE, JoinLines(ls) \o <<"\n">>, 0) : ls \in Listings \ {<<>>}}
    \cup {Response(TRUE, <<>>, 2), TransportFailure}

\* the lines of the configuration files on the hypervisor
CleanupLines ==
    { KeyLine(<<"scsi", "0">>, <<"ram", ":", "vm-", "disk", "-0.", "qcow2", ",", "size", "=32G">>),
      KeyLine(<<"scsi", "0">>, <<"local", ":", "vm-", "disk", "-0.", "qcow2", ",", "size", "=32G">>),
      KeyLine(<<"scsi", "1">>, <<"ram", ":", "vm-", "disk", "-1.", "qcow2">>),
      KeyLine(<<"scsi", "1">>, <<"local", ":", "vm-", "disk", "-1.", "raw", ",", "size", "=10G">>),
      KeyLine(<<"ide", "2">>, <<"local", ":", "iso/image", ".iso", ",", "media=cdrom">>),
      KeyLine(<<"memory">>, <<"1024">>) }

CleanupTexts == {JoinLines(ls) : ls \in SeqsUpTo(CleanupLines, MaxLines)}

\* answers to `cat <conf_path>`: the file's content, a failing cat, or the
\* session is down
CatResponses ==
    {Response(TRUE, t \o <<"\n">>, 0) : t \in CleanupTexts}
    \cup {Response(TRUE, <<>>, 1), TransportFailure}

\* answers to a command whose output is not read
StatusResponses == {Response(TRUE, <<>>, 0), Response(TRUE, <<>>, 1), TransportFailure}

NoSafety == verdict = "unset"

InitCleanup ==
    /\ pc = "cleanup_ls"
    /\ calls = <<>>
    /\ config_text = <<>>
    /\ target_storage \in StorageNames
    /\ dry_run \in BOOLEAN
    /\ NoSafety
    /\ NoCleanup
    /\ NoDeploy
    /\ NoStorage
    /\ NoUtil

\* lines 79-90: the listing; a raising or empty listing ends the pass
CleanupList ==
    /\ pc = "cleanup_ls"
    /\ \E resp \in LsResponses :
        LET r == ExecuteSshCommand(dry_run, TRUE, resp)
            files_out == IF r.raised THEN <<>> ELSE r.out
        IN /\ calls' = Append(calls, Call("cleanup_ram_vms", "ls /etc/pve/qemu-server/*.conf",
                                          <<>>, dry_run, TRUE))
           /\ last_resp' = (IF dry_run THEN NoReply ELSE resp)
           /\ IF files_out = <<>>
              THEN /\ pc' = "done"
                   /\ UNCHANGED <<config_files, file_idx>>
              ELSE /\ pc' = "cleanup_iter"
                   /\ config_files' = SplitLines(Strip(files_out))
                   /\ file_idx' = 1
    /\ UNCHANGED <<config_text, target_storage, verdict, dry_run, vm_id, fetched_path,
                   failures,
                   deployQuiet, storageLocals, utilLocals>>

\* lines 92-96: a file whose derived ID is not purely numeric is skipped
CleanupSkip ==
    /\ pc = "cleanup_iter"
    /\ file_idx <= Len(config_files)
    /\ ~IsDigit(VmIdOf(config_files[file_idx]))
    /\ vm_id' = VmIdOf(config_files[file_idx])
    /\ file_idx' = file_idx + 1
    /\ UNCHANGED <<pc, calls, config_text, target_storage, verdict, dry_run,
                   config_files, fetched_path, failures,
                   deployLocals, storageLocals, utilLocals>>

\* lines 92-104: the ID is numeric; the content is fetched and classified.  A
\* raising cat is caught by the except of the iteration (line 108).
CleanupCat ==
    /\ pc = "cleanup_iter"
    /\ file_idx <= Len(config_files)
    /\ IsDigit(VmIdOf(config_files[file_idx]))
    /\ vm_id' = VmIdOf(config_files[file_idx])
    /\ calls' = Append(calls, Call("cleanup_ram_vms", "cat", config_files[file_idx],
                                   dry_run, FALSE))
    /\ \E resp \in CatResponses :
        LET r == ExecuteSshCommand(dry_run, FALSE, resp) IN
        /\ last_resp' = (IF dry_run THEN NoReply ELSE resp)
        /\ IF r.raised
           THEN /\ file_idx' = file_idx + 1
                /\ failures' = Append(failures, config_files[file_idx])
                /\ UNCHANGED <<pc, config_text, fetched_path>>
           ELSE /\ config_text' = r.out
                /\ fetched_path' = config_files[file_idx]
                /\ UNCHANGED failures
                /\ IF r.out # <<>> /\ CheckVmSafety(vm_id', r.out, target_storage)
                   THEN pc' = "cleanup_stop" /\ UNCHANGED file_idx
                   ELSE file_idx' = file_idx + 1 /\ UNCHANGED pc
    /\ UNCHANGED <<target_storage, verdict, dry_run, config_files,
                   deployQuiet, storageLocals, utilLocals>>

\* variant: the stop is issued without ignore_errors
CleanupStopStrict ==
    /\ pc = "cleanup_stop"
    /\ calls' = Append(calls, Call("cleanup_ram_vms", "qm stop --skiplock", vm_id,
                                   dry_run, FALSE))
    /\ \E resp \in StatusResponses :
        /\ last_resp' = (IF dry_run THEN NoReply ELSE resp)
        /\ IF ExecuteSshCommand(dry_run, FALSE, resp).raised
           THEN /\ pc' = "cleanup_iter"
                /\ file_idx' = file_idx + 1
                /\ failures' = Append(failures, config_files[file_idx])
           ELSE /\ pc' = "cleanup_destroy"
                /\ UNCHANGED <<file_idx, failures>>
    /\ UNCHANGED <<config_text, target_storage, verdict, dry_run, config_files,
                   vm_id, fetched_path,
                   deployQuiet, storageLocals, utilLocals>>

\* line 105: qm stop, failure ignored; only a raising transport reaches the except
CleanupStop ==
    /\ pc = "cleanup_stop"
    /\ calls' = Append(calls, Call("cleanup_ram_vms", "qm stop --skiplock", vm_id,
                                   dry_run, TRUE))
    /\ \E resp \in StatusResponses :
        /\ last_resp' = (IF dry_run THEN NoReply ELSE resp)
        /\ IF ExecuteSshCommand(dry_run, TRUE, resp).raised
           THEN /\ pc' = "cleanup_iter"
                /\ file_idx' = file_idx + 1
                /\ failures' = Append(failures, config_files[file_idx])
           ELSE /\ pc' = "cleanup_destroy"
                /\ UNCHANGED <<file_idx, failures>>
    /\ UNCHANGED <<config_text, target_storage, verdict, dry_run, config_files,
                   vm_id, fetched_path,
                   deployQuiet, storageLocals, utilLocals>>

\* variant: a failing destroy ends the pass
CleanupDestroyAborts ==
    /\ pc = "cleanup_destroy"
    /\ calls' = Append(calls, Call("cleanup_ram_vms", "qm destroy --skiplock --purge",
                                   vm_id, dry_run, FALSE))
    /\ \E resp \in StatusResponses :
        /\ last_resp' = (IF dry_run THEN NoReply ELSE resp)
        /\ IF ExecuteSshCommand(dry_run, FALSE, resp).raised
           THEN /\ failures' = Append(failures, config_files[file_idx])
                /\ pc' = "done"
                /\ UNCHANGED file_idx
           ELSE /\ pc' = "cleanup_iter"
                /\ file_idx' = file_idx + 1
                /\ UNCHANGED failures
    /\ UNCHANGED <<config_text, target_storage, verdict, dry_run, config_files,
                   vm_id, fetched_path,
                   deployQuiet, storageLocals, utilLocals>>

\* line 106: qm destroy; a failure is caught and logged by the except (line 108)
CleanupDestroy ==
    /\ pc = "cleanup_destroy"
    /\ calls' = Append(calls, Call("cleanup_ram_vms", "qm destroy --skiplock --purge",
                                   vm_id, dry_run, FALSE))
    /\ \E resp \in StatusResponses :
        /\ last_resp' = (IF dry_run THEN NoReply ELSE resp)
        /\ IF ExecuteSshCommand(dry_run, FALSE, resp).raised
           THEN failures' = Append(failures, config_files[file_idx])
           ELSE UNCHANGED failures
    /\ pc' = "cleanup_iter"
    /\ file_idx' = file_idx + 1
    /\ UNCHANGED <<config_text, target_storage, verdict, dry_run, config_files,
                   vm_id, fetched_path,
                   deployQuiet, storageLocals, utilLocals>>

\* the for loop is exhausted
CleanupReturn ==
    /\ pc = "cleanup_iter"
    /\ file_idx > Len(config_files)
    /\ pc' = "done"
    /\ UNCHANGED <<calls, config_text, target_storage, verdict, dry_run, cleanupLocals,
                   deployLocals, storageLocals, utilLocals>>

NextCleanup ==
    \/ CleanupList
    \/ CleanupSkip
    \/ CleanupCat
    \/ CleanupStop
    \/ CleanupDestroy
    \/ CleanupReturn

SpecCleanup == InitCleanup /\ [][NextCleanup]_vars

-----------------------------------------------------------------------------
(* The hypervisor: the VM with the requested ID, as the remote commands of  *)
(* section 6 of the specification (remote command surface) see and change it *)

NoVm == [state |-> "absent", on_ram |-> FALSE]

\* the outcome of a remote command on the hypervisor: exit status and the
\* VM afterwards
Outcome(exit_status, vm) == [exit_status |-> exit_status, hv |-> vm]

\* qm status <id>: succeeds exactly when the VM exists
QmStatus(vm) == Outcome(IF vm.state = "absent" THEN 2 ELSE 0, vm)

\* qm stop <id> --skiplock
QmStop(vm) ==
    IF vm.state = "absent" THEN Outcome(2, vm)
    ELSE Outcome(0, [vm EXCEPT !.state = "stopped"])

\* purge_vm_disks && ./ramstor.sh: the reclaimer of section 4.4 removes the
\* VMs whose disks lie entirely on the RAM storage, then the storage is
\* prepared
PurgeAndPrepare(vm) ==
    IF vm.state # "absent" /\ vm.on_ram THEN Outcome(0, NoVm) ELSE Outcome(0, vm)

\* qm clone <template> <id> --storage <ram storage> && qm set <id> ...: fails
\* when the ID is taken
QmClone(vm) ==
    IF vm.state = "absent"
    THEN Outcome(0, [state |-> "stopped", on_ram |-> TRUE])
    ELSE Outcome(255, vm)

\* qm start <id>
QmStart(vm) ==
    IF vm.state = "stopped"
    THEN Outcome(0, [vm EXCEPT !.state = "running"])
    ELSE Outcome(255, vm)

-----------------------------------------------------------------------------
(* Guest agent replies: the JSON text of network-get-interfaces *)

Addr(type, ip) == [type |-> type, ip |-> ip]

Iface(name, addrs) == [name |-> name, addrs |-> addrs]

RECURSIVE Flatten(_)
Flatten(ss) == IF ss = <<>> THEN <<>> ELSE Head(ss) \o Flatten(Tail(ss))

DumpAddr(a) == <<"{", a.type>> \o a.ip \o <<"}">>

DumpIface(f) ==
    <<"{", f.name, "[">>
    \o Flatten([i \in 1..Len(f.addrs) |-> DumpAddr(f.addrs[i])])
    \o <<"]", "}">>

\* the JSON text of a list of interfaces
JsonDumps(data) ==
    <<"[">> \o Flatten([i \in 1..Len(data) |-> DumpIface(data[i])]) \o <<"]">>

JsonError == [ok |-> FALSE, data |-> <<>>, rest |-> <<>>]

\* the address records of one interface, up to the closing "]"
RECURSIVE ParseAddrs(_, _)
ParseAddrs(toks, acc) ==
    IF toks = <<>> THEN JsonError
    ELSE IF Head(toks) = "]" THEN [ok |-> TRUE, data |-> acc, rest |-> Tail(toks)]
    ELSE IF Len(toks) >= 5 /\ toks[1] = "{" /\ toks[5] = "}"
    THEN ParseAddrs(SubSeq(toks, 6, Len(toks)),
                    Append(acc, Addr(toks[2], <<toks[3], toks[4]>>)))
    ELSE JsonError

\* the interface records, up to the closing "]" that ends the text
RECURSIVE ParseIfaces(_, _)
ParseIfaces(toks, acc) ==
    IF toks = <<>> THEN JsonError
    ELSE IF Head(toks) = "]"
    THEN IF Len(toks) = 1 THEN [ok |-> TRUE, data |-> acc, rest |-> <<>>] ELSE JsonError
    ELSE IF Len(toks) >= 3 /\ toks[1] = "{" /\ toks[3] = "["
    THEN LET r == ParseAddrs(SubSeq(toks, 4, Len(toks)), <<>>) IN
         IF r.ok /\ r.rest # <<>> /\ Head(r.rest) = "}"
         THEN ParseIfaces(Tail(r.rest), Append(acc, Iface(toks[2], r.data)))
         ELSE JsonError
    ELSE JsonError

\* json.loads(json_out): ok is FALSE when it raises
JsonLoads(s) ==
    IF s # <<>> /\ Head(s) = "[" THEN ParseIfaces(Tail(s), <<>>) ELSE JsonError

Loopback == Iface("lo", <<Addr("ipv4", <<"127.", "0.0.1">>)>>)

\* what the agent can answer once it runs
AgentData ==
    { <<Loopback,
        Iface("eth0", <<Addr("ipv6", <<"fe80:", ":1">>), Addr("ipv4", <<"10.", "0.0.5">>)>>)>>,
      <<Loopback,
        Iface("docker0", <<Addr("ipv4", <<"172.", "17.0.1">>)>>),
        Iface("eth0", <<Addr("ipv4", <<"10.", "0.0.5">>), Addr("ipv4", <<"10.", "0.0.6">>)>>)>>,
      <<Loopback, Iface("eth0", <<Addr("ipv4", <<"192.", "168.1.5">>)>>)>>,
      <<Iface("lo", <<Addr("ipv4", <<"10.", "0.0.9">>)>>), Iface("eth0", <<>>)>> }

\* answers to `qm guest cmd <id> network-get-interfaces` of a running VM: the
\* agent is not up yet (the command fails and prints nothing), a reply cut
\* short, or a list of interfaces
AgentResponses ==
    {Response(TRUE, JsonDumps(d) \o <<"\n">>, 0) : d \in AgentData}
    \cup { Response(TRUE, <<>>, 1),
           Response(TRUE, <<"[", "{", "eth0", "[">>, 0) }

-----------------------------------------------------------------------------
(* infra/deploy.py: execute_ssh_command, wait_for_ip *)

\* mutant: a non-zero exit status is never raised
DeployExecuteSshCommandLenient(dry, ignore_errors, resp) ==
    IF dry THEN [raised |-> FALSE, out |-> MOCK_OUTPUT_JSON]
    ELSE IF ~resp.transport THEN [raised |-> TRUE, out |-> <<>>]
    ELSE [raised |-> FALSE, out |-> Strip(resp.out)]

\* mutant: ignore_errors is not honoured
DeployExecuteSshCommandStrict(dry, ignore_errors, resp) ==
    IF dry THEN [raised |-> FALSE, out |-> MOCK_OUTPUT_JSON]
    ELSE IF ~resp.transport THEN [raised |-> TRUE, out |-> <<>>]
    ELSE IF resp.exit_status # 0 THEN [raised |-> TRUE, out |-> <<>>]
    ELSE [raised |-> FALSE, out |-> Strip(resp.out)]

\* deploy.execute_ssh_command(client, command, dry_run, print_output,
\* ignore_errors): the copy in deploy.py, which does not filter its output
DeployExecuteSshCommand(dry, ignore_errors, resp) ==
    IF dry THEN [raised |-> FALSE, out |-> MOCK_OUTPUT_JSON]
    ELSE IF ~resp.transport THEN [raised |-> TRUE, out |-> <<>>]
    ELSE IF resp.exit_status # 0 /\ ~ignore_errors THEN [raised |-> TRUE, out |-> <<>>]
    ELSE [raised |-> FALSE, out |-> Strip(resp.out)]

\* seconds between two polls
PollInterval == 3

\* the default timeout of wait_for_ip, which deploy_vm does not override
DefaultTimeout == 60

\* mutant: dry-run mode gives the address of a real guest
DryRunIpReal == <<"10.", "0.0.5">>

\* the address wait_for_ip returns in dry-run mode
DryRunIp == <<"10.", "DRY.RUN.IP">>

\* the value None
None == <<>>

\* mutant: any IPv4 address is taken
RECURSIVE FirstIpOfAddrsAnyIpv4(_)
FirstIpOfAddrsAnyIpv4(addrs) ==
    IF addrs = <<>> THEN None
    ELSE IF Head(addrs).type = "ipv4"
    THEN Head(addrs).ip
    ELSE FirstIpOfAddrsAnyIpv4(Tail(addrs))

\* the inner loop over the addresses of one interface
RECURSIVE FirstIpOfAddrs(_)
FirstIpOfAddrs(addrs) ==
    IF addrs = <<>> THEN None
    ELSE IF Head(addrs).type = "ipv4" /\ StartsWith(Head(addrs).ip, <<"10.">>)
    THEN Head(addrs).ip
    ELSE FirstIpOfAddrs(Tail(addrs))

\* mutant: the loopback interface is not skipped
RECURSIVE FirstIpWithLoopback(_)
FirstIpWithLoopback(data) ==
    IF data = <<>> THEN None
    ELSE IF FirstIpOfAddrs(Head(data).addrs) # None
    THEN FirstIpOfAddrs(Head(data).addrs)
    ELSE FirstIpWithLoopback(Tail(data))

\* the loop over the interfaces: the first qualifying address, None without one
RECURSIVE FirstIp(_)
FirstIp(data) ==
    IF data = <<>> THEN None
    ELSE IF Head(data).name = "lo" THEN FirstIp(Tail(data))
    ELSE IF FirstIpOfAddrs(Head(data).addrs) # None
    THEN FirstIpOfAddrs(Head(data).addrs)
    ELSE FirstIp(Tail(data))

\* the body of the try of one poll on the returned json_out: the address to
\* return, None when the attempt ends in a sleep (the first one for an empty
\* output, the common one otherwise; an exception is swallowed)
PollResult(out) ==
    IF out = <<>> THEN None
    ELSE IF ~JsonLoads(out).ok THEN None
    ELSE FirstIp(JsonLoads(out).data)

-----------------------------------------------------------------------------
(* infra/deploy.py: get_node_params, deploy_vm *)

\* a field the node's section of config.yaml does not have
Absent == <<>>

NodeConf(configured, host, user, key_path, storage) ==
    [configured |-> configured, host |-> host, user |-> user,
     key_path |-> key_path, storage |-> storage]

\* the selected node in config.yaml: not there, fully described, or
\* described without user, key_path and storage
NodeConfs ==
    { NodeConf(FALSE, Absent, Absent, Absent, Absent),
      NodeConf(TRUE, <<"10.33.33.15">>, <<"root">>, <<"~/.ssh/id_rsa">>, <<"ram">>),
      NodeConf(TRUE, <<"10.33.33.2">>, Absent, Absent, Absent) }

\* dict.get(key, default)
GetOr(value, default) == IF value = Absent THEN default ELSE value

\* deploy.get_node_params(node_name, config): raised when it raises ValueError
GetNodeParams(conf) ==
    IF ~conf.configured
    THEN [raised |-> TRUE, host |-> None, user |-> None, key |-> None, storage |-> None]
    ELSE [raised |-> FALSE,
          host |-> conf.host,
          user |-> GetOr(conf.user, <<"root">>),
          key |-> GetOr(conf.key_path, <<"~/.ssh/id_rsa">>),
          storage |-> GetOr(conf.storage, <<"ram">>)]

\* the arguments of the run: --tmpl-id, --snap, --new-id, and the memory
\* default of line 227
template_id == <<"100">>

snap_name == <<"snap1">>

new_vm_id == <<"200">>

memory == <<"8192">>

\* what input() gives: a typed line, or end of input (EOFError)
InputReplies == {"y", "Y", "n", "", "yes", "EOF"}

\* str.lower()
Lower(a) == IF a = "Y" THEN "y" ELSE a

NoResult == [kind |-> "unset", id |-> None, ip |-> None]

\* a bare `return`
ReturnNone == [kind |-> "None", id |-> None, ip |-> None]

\* return {"id": new_vm_id, "ip": ip}
ReturnDict(id, ip) == [kind |-> "dict", id |-> id, ip |-> ip]

\* A command reaching the hypervisor in state hv: it runs with the outcome o,
\* or, while the run's budget of faults lasts, the session is down or the
\* command fails for a reason of its own, the VM being left as it is.
RemoteRun(o) ==
    {[resp |-> Response(TRUE, <<>>, o.exit_status), hv |-> o.hv, fault |-> 0]}
    \cup (IF faults < MaxFaults
          THEN {[resp |-> TransportFailure, hv |-> hv, fault |-> 1],
                [resp |-> Response(TRUE, <<>>, 1), hv |-> hv, fault |-> 1]}
          ELSE {})

\* in dry-run mode nothing reaches the hypervisor
Exec(o) ==
    IF dry_run
    THEN {[resp |-> Response(TRUE, <<>>, 0), hv |-> hv, fault |-> 0]}
    ELSE RemoteRun(o)

\* the polls of a running VM's agent; a VM that does not run has none
AgentRun ==
    (IF hv.state = "running"
     THEN {[resp |-> a, hv |-> hv, fault |-> 0] : a \in AgentResponses}
     ELSE {[resp |-> Response(TRUE, <<>>, 1), hv |-> hv, fault |-> 0]})
    \cup (IF faults < MaxFaults
          THEN {[resp |-> TransportFailure, hv |-> hv, fault |-> 1]}
          ELSE {})

DeployCall(cmd, arg, dry, ignore_errors) == Call("deploy_vm", cmd, arg, dry, ignore_errors)

SetupCmd == "bash -ic 'source /root/.bashrc && purge_vm_disks && ./ramstor.sh'"

CloneArgs == template_id \o new_vm_id \o snap_name \o target_storage \o memory

\* mutant: with force the VM is stopped whether it exists or not
AfterProbeAlwaysStop(exists) ==
    IF force \/ dry_run THEN "stop" ELSE IF exists THEN "prompt" ELSE "setup"

\* where the run goes once vm_exists is known (lines 265-281)
AfterProbe(exists) ==
    IF exists THEN (IF force \/ dry_run THEN "stop" ELSE "prompt") ELSE "setup"

InitDeploy ==
    /\ pc = "deploy_init"
    /\ calls = <<>>
    /\ config_text = <<>>
    /\ target_storage = <<>>
    /\ dry_run \in BOOLEAN
    /\ force \in BOOLEAN
    /\ node_conf \in NodeConfs
    /\ client = "None"
    /\ vm_exists = FALSE
    /\ answer = "unasked"
    /\ result = NoResult
    /\ outcome = "running"
    /\ hv \in {NoVm, [state |-> "running", on_ram |-> FALSE]}
    /\ run = 1
    /\ prev_success = FALSE
    /\ faults = 0
    /\ timeout = 0
    /\ elapsed = 0
    /\ json_out = <<>>
    /\ wait_result = None
    /\ last_resp = NoReply
    /\ interrupted = FALSE
    /\ NoSafety
    /\ NoCleanup
    /\ NoStorage
    /\ NoUtil

\* lines 204-227: the node's parameters; an unknown node ends the process
\* with sys.exit(1) before any session exists
DeployResolveNode ==
    /\ pc = "deploy_init"
    /\ LET params == GetNodeParams(node_conf) IN
       IF params.raised
       THEN /\ outcome' = "exit1"
            /\ pc' = "done"
            /\ UNCHANGED target_storage
       ELSE /\ target_storage' = params.storage
            /\ pc' = "connect"
            /\ UNCHANGED outcome
    /\ UNCHANGED <<calls, config_text, verdict, dry_run, cleanupLocals, storageLocals,
                   utilLocals, force, node_conf,
                   client, vm_exists, answer, result, hv, run, prev_success, faults,
                   timeout, elapsed, json_out, wait_result,
                   last_resp, interrupted>>

\* variant: the session is connected in dry-run mode as well
DeployConnectAlways ==
    /\ pc = "connect"
    /\ client' = "connected"
    /\ IF dry_run
       THEN vm_exists' = TRUE /\ pc' = AfterProbe(TRUE)
       ELSE pc' = "probe1" /\ UNCHANGED vm_exists
    /\ UNCHANGED <<calls, config_text, target_storage, verdict, dry_run, cleanupLocals,
                   storageLocals, utilLocals, force, node_conf, answer, result, hv, run, prev_success,
                   timeout, elapsed, json_out, wait_result, outcome, faults,
                   last_resp, interrupted>>

\* lines 235-243 and, in dry-run mode, lines 248-261: the session object; the
\* connection unless dry_run, which takes the VM to exist
DeployConnect ==
    /\ pc = "connect"
    /\ IF dry_run
       THEN /\ client' = "created"
            /\ vm_exists' = TRUE
            /\ pc' = AfterProbe(TRUE)
            /\ UNCHANGED <<outcome, faults>>
       ELSE \/ /\ client' = "connected"
               /\ pc' = "probe1"
               /\ UNCHANGED <<outcome, faults, vm_exists>>
            \/ /\ faults < MaxFaults
               /\ faults' = faults + 1
               /\ outcome' = "exit1"
               /\ client' = "closed"
               /\ pc' = "done"
               /\ UNCHANGED vm_exists
    /\ UNCHANGED <<calls, config_text, target_storage, verdict, dry_run, cleanupLocals,
                   storageLocals, utilLocals, force, node_conf, answer, result, hv, run, prev_success,
                   timeout, elapsed, json_out, wait_result,
                   last_resp, interrupted>>

\* line 252: the first qm status, ignore_errors=True; only an exception of
\* the session reaches the bare except of line 262
DeployProbe1 ==
    /\ pc = "probe1"
    /\ calls' = Append(calls, DeployCall("qm status", new_vm_id, FALSE, TRUE))
    /\ \E x \in RemoteRun(QmStatus(hv)) :
        /\ faults' = faults + x.fault
        /\ last_resp' = x.resp
        /\ IF DeployExecuteSshCommand(FALSE, TRUE, x.resp).raised
           THEN vm_exists' = FALSE /\ pc' = AfterProbe(FALSE)
           ELSE UNCHANGED vm_exists /\ pc' = "probe2"
    /\ UNCHANGED <<config_text, target_storage, verdict, dry_run, cleanupLocals, storageLocals,
                   utilLocals, force,
                   node_conf, client, answer, result, outcome, hv, run, prev_success,
                   timeout, elapsed, json_out, wait_result, interrupted>>

\* lines 258-263: the second qm status decides vm_exists
DeployProbe2 ==
    /\ pc = "probe2"
    /\ calls' = Append(calls, DeployCall("qm status", new_vm_id, FALSE, FALSE))
    /\ \E x \in RemoteRun(QmStatus(hv)) :
        /\ faults' = faults + x.fault
        /\ last_resp' = x.resp
        /\ vm_exists' = ~DeployExecuteSshCommand(FALSE, FALSE, x.resp).raised
        /\ pc' = AfterProbe(vm_exists')
    /\ UNCHANGED <<config_text, target_storage, verdict, dry_run, cleanupLocals, storageLocals,
                   utilLocals, force,
                   node_conf, client, answer, result, outcome, hv, run, prev_success,
                   timeout, elapsed, json_out, wait_result, interrupted>>

\* mutant: the answer is read and not acted upon
DeployPromptIgnoresAnswer ==
    /\ pc = "prompt"
    /\ \E reply \in InputReplies :
        /\ answer' = reply
        /\ IF reply = "EOF"
           THEN /\ outcome' = "exit1"
                /\ client' = "closed"
                /\ pc' = "done"
           ELSE /\ pc' = "stop"
                /\ UNCHANGED <<outcome, client>>
    /\ UNCHANGED <<calls, config_text, target_storage, verdict, dry_run, cleanupLocals,
                   storageLocals, utilLocals, force, node_conf, vm_exists, result, hv, run, prev_success, faults,
                   timeout, elapsed, json_out, wait_result,
                   last_resp, interrupted>>

\* lines 272-278: the question to the operator; anything but y or Y returns
\* None through the finally, end of input is an exception
DeployPrompt ==
    /\ pc = "prompt"
    /\ \E reply \in InputReplies :
        /\ answer' = reply
        /\ IF reply = "EOF"
           THEN /\ outcome' = "exit1"
                /\ client' = "closed"
                /\ pc' = "done"
                /\ UNCHANGED result
           ELSE IF Lower(reply) # "y"
           THEN /\ result' = ReturnNone
                /\ outcome' = "returned"
                /\ client' = "closed"
                /\ pc' = "done"
           ELSE /\ pc' = "stop"
                /\ UNCHANGED <<result, outcome, client>>
    /\ UNCHANGED <<calls, config_text, target_storage, verdict, dry_run, cleanupLocals,
                   storageLocals, utilLocals, force, node_conf, vm_exists, hv, run, prev_success, faults,
                   timeout, elapsed, json_out, wait_result,
                   last_resp, interrupted>>

\* mutant: after a stop the run clones at once, the storage script being run
\* on the clean path only
DeployStopSkipsSetup ==
    /\ pc = "stop"
    /\ calls' = Append(calls, DeployCall("qm stop --skiplock", new_vm_id, dry_run, TRUE))
    /\ \E x \in Exec(QmStop(hv)) :
        /\ faults' = faults + x.fault
        /\ last_resp' = x.resp
        /\ hv' = x.hv
    /\ pc' = "clone"
    /\ UNCHANGED <<config_text, target_storage, verdict, dry_run, cleanupLocals, storageLocals,
                   utilLocals, force,
                   node_conf, client, vm_exists, answer, result, outcome, run,
                   prev_success, timeout, elapsed, json_out, wait_result, interrupted>>

\* variant: a stop that fails ends the run
DeployStopFatal ==
    /\ pc = "stop"
    /\ calls' = Append(calls, DeployCall("qm stop --skiplock", new_vm_id, dry_run, TRUE))
    /\ \E x \in Exec(QmStop(hv)) :
        /\ faults' = faults + x.fault
        /\ last_resp' = x.resp
        /\ hv' = x.hv
        /\ IF DeployExecuteSshCommand(dry_run, FALSE, x.resp).raised
           THEN outcome' = "exit1" /\ client' = "closed" /\ pc' = "done"
           ELSE pc' = "setup" /\ UNCHANGED <<outcome, client>>
    /\ UNCHANGED <<config_text, target_storage, verdict, dry_run, cleanupLocals, storageLocals,
                   utilLocals, force,
                   node_conf, vm_exists, answer, result, run,
                   prev_success, timeout, elapsed, json_out, wait_result, interrupted>>

\* lines 268-270 and 279-281: qm stop, ignore_errors=True inside try/except: pass
DeployStop ==
    /\ pc = "stop"
    /\ calls' = Append(calls, DeployCall("qm stop --skiplock", new_vm_id, dry_run, TRUE))
    /\ \E x \in Exec(QmStop(hv)) :
        /\ faults' = faults + x.fault
        /\ last_resp' = x.resp
        /\ hv' = x.hv
    /\ pc' = "setup"
    /\ UNCHANGED <<config_text, target_storage, verdict, dry_run, cleanupLocals, storageLocals,
                   utilLocals, force,
                   node_conf, client, vm_exists, answer, result, outcome, run,
                   prev_success, timeout, elapsed, json_out, wait_result, interrupted>>

\* lines 287-289: the purge and storage script
DeploySetup ==
    /\ pc = "setup"
    /\ calls' = Append(calls, DeployCall(SetupCmd, <<>>, dry_run, FALSE))
    /\ \E x \in Exec(PurgeAndPrepare(hv)) :
        /\ faults' = faults + x.fault
        /\ last_resp' = x.resp
        /\ hv' = x.hv
        /\ IF DeployExecuteSshCommand(dry_run, FALSE, x.resp).raised
           THEN outcome' = "exit1" /\ client' = "closed" /\ pc' = "done"
           ELSE pc' = "clone" /\ UNCHANGED <<outcome, client>>
    /\ UNCHANGED <<config_text, target_storage, verdict, dry_run, cleanupLocals, storageLocals,
                   utilLocals, force,
                   node_conf, vm_exists, answer, result, run, prev_success,
                   timeout, elapsed, json_out, wait_result, interrupted>>

\* variant: the run goes on to the start whatever the clone did
DeployCloneContinues ==
    /\ pc = "clone"
    /\ calls' = Append(calls, DeployCall("qm clone && qm set", CloneArgs, dry_run, FALSE))
    /\ \E x \in Exec(QmClone(hv)) :
        /\ faults' = faults + x.fault
        /\ last_resp' = x.resp
        /\ hv' = x.hv
        /\ pc' = "start"
    /\ UNCHANGED <<config_text, target_storage, verdict, dry_run, cleanupLocals, storageLocals,
                   utilLocals, force, outcome, client,
                   node_conf, vm_exists, answer, result, run, prev_success,
                   timeout, elapsed, json_out, wait_result, interrupted>>

\* lines 296-301: qm clone && qm set
DeployClone ==
    /\ pc = "clone"
    /\ calls' = Append(calls, DeployCall("qm clone && qm set", CloneArgs, dry_run, FALSE))
    /\ \E x \in Exec(QmClone(hv)) :
        /\ faults' = faults + x.fault
        /\ last_resp' = x.resp
        /\ hv' = x.hv
        /\ IF DeployExecuteSshCommand(dry_run, FALSE, x.resp).raised
           THEN outcome' = "exit1" /\ client' = "closed" /\ pc' = "done"
           ELSE pc' = "start" /\ UNCHANGED <<outcome, client>>
    /\ UNCHANGED <<config_text, target_storage, verdict, dry_run, cleanupLocals, storageLocals,
                   utilLocals, force,
                   node_conf, vm_exists, answer, result, run, prev_success,
                   timeout, elapsed, json_out, wait_result, interrupted>>

\* lines 307-309: qm start, then wait_for_ip is entered with its default timeout
DeployStart ==
    /\ pc = "start"
    /\ calls' = Append(calls, DeployCall("qm start", new_vm_id, dry_run, FALSE))
    /\ \E x \in Exec(QmStart(hv)) :
        /\ faults' = faults + x.fault
        /\ last_resp' = x.resp
        /\ hv' = x.hv
        /\ IF DeployExecuteSshCommand(dry_run, FALSE, x.resp).raised
           THEN /\ outcome' = "exit1" /\ client' = "closed" /\ pc' = "done"
                /\ UNCHANGED <<timeout, elapsed>>
           ELSE /\ pc' = "wait"
                /\ timeout' = DefaultTimeout
                /\ elapsed' = 0
                /\ UNCHANGED <<outcome, client>>
    /\ UNCHANGED <<config_text, target_storage, verdict, dry_run, cleanupLocals, storageLocals,
                   utilLocals, force,
                   node_conf, vm_exists, answer, result, run, prev_success,
                   json_out, wait_result, interrupted>>

\* wait_for_ip, lines 156-158: in dry-run mode the first pass of the loop returns
WaitDryRun ==
    /\ pc = "wait"
    /\ elapsed < timeout
    /\ dry_run
    /\ wait_result' = DryRunIp
    /\ pc' = "wait_returned"
    /\ UNCHANGED <<calls, config_text, target_storage, verdict, dry_run, cleanupLocals,
                   storageLocals, utilLocals, force, node_conf, client, vm_exists, answer, result, outcome, hv, run,
                   prev_success, faults, timeout, elapsed, json_out,
                   last_resp, interrupted>>

\* wait_for_ip, lines 160-190: one poll.  The command takes d seconds; an
\* attempt that does not return sleeps PollInterval seconds.
WaitPoll ==
    /\ pc = "wait"
    /\ elapsed < timeout
    /\ ~dry_run
    /\ calls' = Append(calls, Call("wait_for_ip", "qm guest cmd network-get-interfaces",
                                   new_vm_id, FALSE, TRUE))
    /\ \E x \in AgentRun, d \in PollDurations :
        LET r == DeployExecuteSshCommand(FALSE, TRUE, x.resp)
            ip == IF r.raised THEN None ELSE PollResult(r.out)
        IN /\ faults' = faults + x.fault
           /\ last_resp' = x.resp
           /\ json_out' = IF r.raised THEN json_out ELSE r.out
           /\ IF ip # None
              THEN /\ wait_result' = ip
                   /\ pc' = "wait_returned"
                   /\ elapsed' = elapsed + d
              ELSE /\ elapsed' = elapsed + d + PollInterval
                   /\ UNCHANGED <<wait_result, pc>>
    /\ UNCHANGED <<config_text, target_storage, verdict, dry_run, cleanupLocals, storageLocals,
                   utilLocals, force,
                   node_conf, client, vm_exists, answer, result, outcome, hv, run,
                   prev_success, timeout, interrupted>>

\* wait_for_ip, lines 192-193: the loop condition fails
WaitTimeout ==
    /\ pc = "wait"
    /\ elapsed >= timeout
    /\ wait_result' = None
    /\ pc' = "wait_returned"
    /\ UNCHANGED <<calls, config_text, target_storage, verdict, dry_run, cleanupLocals,
                   storageLocals, utilLocals, force, node_conf, client, vm_exists, answer, result, outcome, hv, run,
                   prev_success, faults, timeout, elapsed, json_out,
                   last_resp, interrupted>>

\* mutant: the record is returned and the session left open
DeployReturnLeavesSession ==
    /\ pc = "wait_returned"
    /\ result' = ReturnDict(new_vm_id, wait_result)
    /\ outcome' = "returned"
    /\ pc' = "done"
    /\ UNCHANGED <<calls, config_text, target_storage, verdict, dry_run, cleanupLocals,
                   storageLocals, utilLocals, force, node_conf, client, vm_exists, answer, hv, run, prev_success,
                   faults, timeout, elapsed, json_out, wait_result, last_resp,
                   interrupted>>

\* lines 309-319: return {"id": new_vm_id, "ip": ip}, through the finally
DeployReturn ==
    /\ pc = "wait_returned"
    /\ result' = ReturnDict(new_vm_id, wait_result)
    /\ outcome' = "returned"
    /\ client' = "closed"
    /\ pc' = "done"
    /\ UNCHANGED <<calls, config_text, target_storage, verdict, dry_run, cleanupLocals,
                   storageLocals, utilLocals, force, node_conf, vm_exists, answer, hv, run, prev_success, faults,
                   timeout, elapsed, json_out, wait_result,
                   last_resp, interrupted>>

\* lines 321-337: the script is run again for the same --new-id, with flags of
\* the operator's choice
DeployAgain ==
    /\ pc = "done"
    /\ run < MaxRuns
    /\ run' = run + 1
    /\ prev_success' = (outcome = "returned" /\ result.kind = "dict" /\ ~dry_run)
    /\ pc' = "deploy_init"
    /\ calls' = <<>>
    /\ dry_run' \in BOOLEAN
    /\ force' \in BOOLEAN
    /\ target_storage' = <<>>
    /\ client' = "None"
    /\ vm_exists' = FALSE
    /\ answer' = "unasked"
    /\ result' = NoResult
    /\ outcome' = "running"
    /\ faults' = 0
    /\ timeout' = 0
    /\ elapsed' = 0
    /\ json_out' = <<>>
    /\ wait_result' = None
    /\ last_resp' = NoReply
    /\ interrupted' = FALSE
    /\ UNCHANGED <<config_text, verdict, cleanupLocals, storageLocals, utilLocals,
                   node_conf, hv>>

NextDeploy ==
    \/ DeployResolveNode
    \/ DeployConnect
    \/ DeployProbe1
    \/ DeployProbe2
    \/ DeployPrompt
    \/ DeployStop
    \/ DeploySetup
    \/ DeployClone
    \/ DeployStart
    \/ WaitDryRun
    \/ WaitPoll
    \/ WaitTimeout
    \/ DeployReturn
    \/ DeployAgain

SpecDeploy == InitDeploy /\ [][NextDeploy]_vars

-----------------------------------------------------------------------------
(* The claims' reading of a configuration text, stated on the lines of the *)
(* text and on the atoms of a value, without the program's dict or loops   *)

ClaimWellFormed(line) ==
    LET l == Strip(line) IN
    /\ l # <<>>
    /\ l[1] # "#"
    /\ \E i \in 1..Len(l) : l[i] = ":"

ClaimKey(line) ==
    LET l == Strip(line) IN Strip(SubSeq(l, 1, IndexOf(":", l) - 1))

ClaimValue(line) ==
    LET l == Strip(line) IN Strip(SubSeq(l, IndexOf(":", l) + 1, Len(l)))

\* the key/value entries of a text: for a repeated key, the last line that sets it
ClaimEntries(text) ==
    LET ls == SplitLines(text)
        Live == {i \in 1..Len(ls) :
                    /\ ClaimWellFormed(ls[i])
                    /\ \A j \in (i + 1)..Len(ls) :
                          ClaimWellFormed(ls[j]) => ClaimKey(ls[j]) # ClaimKey(ls[i])}
    IN {[key |-> ClaimKey(ls[i]), value |-> ClaimValue(ls[i])] : i \in Live}

ClaimIsDisk(e) ==
    /\ e.key # <<>>
    /\ e.key[1] \in {"scsi", "ide", "sata", "virtio", "efidisk"}

ClaimIsCdrom(e) == \E i \in 1..Len(e.value) : e.value[i] \in {"media=cdrom", ".iso"}

\* the non-CD-ROM disk entries
ClaimHardDisks(text) == {e \in ClaimEntries(text) : ClaimIsDisk(e) /\ ~ClaimIsCdrom(e)}

ClaimOnStorage(e, storage) ==
    /\ Len(e.value) > Len(storage)
    /\ \A i \in 1..Len(storage) : e.value[i] = storage[i]
    /\ e.value[Len(storage) + 1] = ":"

ClaimHasAllThree(e) ==
    \A w \in {"disk", "size", "qcow2"} : \E i \in 1..Len(e.value) : e.value[i] = w

ClaimEntrySafe(e, storage) == ClaimOnStorage(e, storage) /\ ClaimHasAllThree(e)

Returned == pc = "returned"

-----------------------------------------------------------------------------
(* C2 *)

\* C2: check_vm_safety returns true if and only if at least one non-CD-ROM
\* disk entry exists and every non-CD-ROM disk entry's value starts with
\* "<target_storage>:" and contains disk, size and qcow2.
C2_VerdictIff ==
    Returned =>
        (verdict <=>
            /\ ClaimHardDisks(config_text) # {}
            /\ \A e \in ClaimHardDisks(config_text) : ClaimEntrySafe(e, target_storage))

\* a true verdict on a text with two hard disks, both on the target storage "local"
C2_Witness ==
    /\ Returned
    /\ verdict = TRUE
    /\ Cardinality(ClaimHardDisks(config_text)) = 2
    /\ target_storage = <<"local">>

-----------------------------------------------------------------------------
(* C3 *)

\* C3: a configuration with zero non-CD-ROM disk entries (no disk keys at
\* all, or only CD-ROM entries) gets the verdict false.
C3_NoDisksFalse ==
    (Returned /\ ClaimHardDisks(config_text) = {}) => verdict = FALSE

\* a returned call on a text whose only disk entries are CD-ROMs
C3_Witness ==
    /\ Returned
    /\ ClaimHardDisks(config_text) = {}
    /\ \E e \in ClaimEntries(config_text) : ClaimIsDisk(e) /\ ClaimIsCdrom(e)
    /\ verdict = FALSE

-----------------------------------------------------------------------------
(* C4 *)

\* C4: a configuration with at least one non-CD-ROM disk entry on another
\* storage prefix, or on the target storage but lacking one of disk, size,
\* qcow2, gets the verdict false, whatever the other entries are and wherever
\* the offending entry stands.
C4_OffendingFalse ==
    (Returned /\ \E e \in ClaimHardDisks(config_text) : ~ClaimEntrySafe(e, target_storage))
        => verdict = FALSE

\* the offending entry stands on the last line, after a safe disk
C4_Witness ==
    /\ Returned
    /\ verdict = FALSE
    /\ LET ls == SplitLines(config_text) IN
       /\ Len(ls) = 2
       /\ ClaimWellFormed(ls[1]) /\ ClaimWellFormed(ls[2])
       /\ LET first == [key |-> ClaimKey(ls[1]), value |-> ClaimValue(ls[1])]
              last == [key |-> ClaimKey(ls[2]), value |-> ClaimValue(ls[2])]
          IN /\ first \in ClaimHardDisks(config_text)
             /\ ClaimEntrySafe(first, target_storage)
             /\ last \in ClaimHardDisks(config_text)
             /\ ClaimOnStorage(last, target_storage)
             /\ ~ClaimHasAllThree(last)

-----------------------------------------------------------------------------
(* C5 *)

\* C5 as stated: whenever every non-CD-ROM disk entry is prefixed
\* "<storage>:" and contains disk, size and qcow2, the verdict is true.
C5_Original ==
    (Returned /\ \A e \in ClaimHardDisks(config_text) : ClaimEntrySafe(e, target_storage))
        => verdict = TRUE

\* C5 amended: whenever there is at least one non-CD-ROM disk entry and every
\* non-CD-ROM disk entry is prefixed "<storage>:" and contains disk, size and
\* qcow2, the verdict is true.
C5_AllSafeTrue ==
    ( /\ Returned
      /\ ClaimHardDisks(config_text) # {}
      /\ \A e \in ClaimHardDisks(config_text) : ClaimEntrySafe(e, target_storage) )
        => verdict = TRUE

\* a safe disk beside a CD-ROM entry that lies on another storage
C5_Witness ==
    /\ Returned
    /\ verdict = TRUE
    /\ Cardinality(ClaimHardDisks(config_text)) = 1
    /\ \E e \in ClaimEntries(config_text) :
          ClaimIsDisk(e) /\ ClaimIsCdrom(e) /\ ~ClaimOnStorage(e, target_storage)

-----------------------------------------------------------------------------
(* C1 *)

ClaimSafe(text, storage) ==
    /\ ClaimHardDisks(text) # {}
    /\ \A e \in ClaimHardDisks(text) : ClaimEntrySafe(e, storage)

IsDestroy(c) == c.cmd = "qm destroy --skiplock --purge"

IsCat(c) == c.cmd = "cat"

\* the step issues a destroy command
DestroyIssued == Len(calls') = Len(calls) + 1 /\ IsDestroy(calls'[Len(calls')])

\* the cat issued last
LastCat == calls[CHOOSE i \in 1..Len(calls) :
                    IsCat(calls[i]) /\ \A j \in (i + 1)..Len(calls) : ~IsCat(calls[j])]

\* C1: in any run of cleanup_ram_vms a destroy command is issued for a VM ID
\* only if the configuration text fetched for that VM in the same run (by the
\* last cat, whose output config_text holds) is safe for storage_name; no VM
\* whose configuration has a non-CD-ROM disk entry outside the target storage
\* is destroyed.
C1_DestroyOnlySafe ==
    [][DestroyIssued =>
          /\ \E i \in 1..Len(calls) : IsCat(calls[i])
          /\ LastCat.arg = fetched_path
          /\ calls'[Len(calls')].arg = VmIdOf(fetched_path)
          /\ ClaimSafe(config_text, target_storage)
          /\ \A e \in ClaimHardDisks(config_text) : ClaimOnStorage(e, target_storage)]_vars

\* the second listed VM was destroyed and the first, whose content was fetched
\* too, was not
C1_Witness ==
    /\ Len(config_files) = 2
    /\ Cardinality({i \in 1..Len(calls) : IsCat(calls[i])}) = 2
    /\ Cardinality({i \in 1..Len(calls) : IsDestroy(calls[i])}) = 1
    /\ \E i \in 1..Len(calls) :
          IsDestroy(calls[i]) /\ calls[i].arg = VmIdOf(config_files[2])
    /\ \E e \in ClaimEntries(config_text) : ClaimIsDisk(e) /\ ClaimIsCdrom(e)

-----------------------------------------------------------------------------
(* The claims' reading of a deployment run, stated on the commands issued *)

IsStatus(c) == c.cmd = "qm status"

IsStop(c) == c.cmd = "qm stop --skiplock"

IsSetup(c) == c.cmd = "bash -ic 'source /root/.bashrc && purge_vm_disks && ./ramstor.sh'"

IsClone(c) == c.cmd = "qm clone && qm set"

IsStart(c) == c.cmd = "qm start"

IsPoll(c) == c.cmd = "qm guest cmd network-get-interfaces"

CountOf(P(_)) == Cardinality({i \in 1..Len(calls) : P(calls[i])})

\* the commands issued after the existence probe
AfterStatus == SelectSeq(calls, LAMBDA c : ~IsStatus(c))

\* the run is past its existence probe
PastProbe == pc \notin {"deploy_init", "connect", "probe1", "probe2"}

\* the operator was asked and did not approve
ClaimNegative == answer \in {"n", ""}

ClaimApproved == answer \in {"y", "Y"}

\* the run has ended by returning to its caller
ClaimReturned == pc = "done" /\ outcome = "returned"

-----------------------------------------------------------------------------
(* C6 *)

-----------------------------------------------------------------------------
(* C7 *)

\* the existence probe was made and failed
ProbeFailed == ~dry_run /\ PastProbe /\ CountOf(IsStatus) > 0 /\ ~vm_exists

\* C7: in a real run whose existence probe fails, no stop and no destroy
\* command is issued, the operator is not asked, and the command that follows
\* the probe is the storage preparation; a probe of an absent VM fails.
C7_AbsentStraightToSetup ==
    /\ ProbeFailed =>
          /\ answer = "unasked"
          /\ \A i \in 1..Len(calls) : ~IsStop(calls[i]) /\ ~IsDestroy(calls[i])
          /\ AfterStatus = <<>> => pc = "setup"
          /\ AfterStatus # <<>> => IsSetup(AfterStatus[1])
    /\ (/\ ~dry_run
        /\ PastProbe
        /\ CountOf(IsStatus) = 2
        /\ AfterStatus = <<>>
        /\ faults = 0
        /\ hv.state = "absent") => ProbeFailed

\* a forced run found no VM and has issued the storage preparation
C7_Witness ==
    /\ ProbeFailed
    /\ force
    /\ pc = "clone"
    /\ faults = 0
    /\ hv.state = "absent"
    /\ Len(calls) = 3

-----------------------------------------------------------------------------
(* C8 *)

\* C8: when the operator gives a negative answer (the VM exists, force is not
\* set, the run is not a dry-run), the run has ended by returning, without
\* sys.exit, the session closed, and the only commands it issued are the
\* status queries of the probe.
C8_DeclineReturnsEarly ==
    ClaimNegative =>
        /\ vm_exists /\ ~force /\ ~dry_run
        /\ ClaimReturned
        /\ client = "closed"
        /\ \A i \in 1..Len(calls) : IsStatus(calls[i])

\* the operator declined the replacement of a running VM
C8_Witness ==
    /\ answer = "n"
    /\ pc = "done"
    /\ hv.state = "running"
    /\ Len(calls) = 2

-----------------------------------------------------------------------------
(* C9 *)

\* the interfaces of the reply held by json_out
ClaimReply == JsonLoads(json_out)

\* positions (interface, address) of the reply that qualify: not the
\* loopback interface, IPv4, in the 10. network
ClaimQualifying ==
    {p \in (1..Len(ClaimReply.data)) \X (1..3) :
        /\ p[2] <= Len(ClaimReply.data[p[1]].addrs)
        /\ ClaimReply.data[p[1]].name # "lo"
        /\ ClaimReply.data[p[1]].addrs[p[2]].type = "ipv4"
        /\ ClaimReply.data[p[1]].addrs[p[2]].ip[1] = "10."}

ClaimBefore(p, q) == p[1] < q[1] \/ (p[1] = q[1] /\ p[2] < q[2])

\* the address found by the poller: the first qualifying one of the reply
ClaimFoundByPoller(ip) ==
    /\ ClaimReply.ok
    /\ \E p \in ClaimQualifying :
          /\ ClaimReply.data[p[1]].addrs[p[2]].ip = ip
          /\ \A q \in ClaimQualifying : q = p \/ ClaimBefore(p, q)

\* the record of a run that reached the poller
ClaimRecord ==
    /\ result.kind = "dict"
    /\ result.id = <<"200">>
    /\ IF dry_run THEN result.ip = <<"10.", "DRY.RUN.IP">>
       ELSE IF result.ip # <<>> THEN ClaimFoundByPoller(result.ip)
       ELSE elapsed >= timeout

-----------------------------------------------------------------------------
(* C10 *)

IsPrepareStorage(c) == c.by = "prepare_storage"

\* C10 as the specification words it: a clone command is preceded by the
\* commands of exactly one prepare_storage invocation (its mount probe, issued
\* once per invocation)
C10_Original ==
    \A i \in 1..Len(calls) :
        IsClone(calls[i]) =>
            Cardinality({j \in 1..(i - 1) :
                            IsPrepareStorage(calls[j]) /\ calls[j].cmd = "mount | grep"}) = 1

-----------------------------------------------------------------------------
(* C11 *)

\* the session's answer reports a failure: no answer at all, or a non-zero
\* exit status
ClaimFailed(r) == ~r.transport \/ r.exit_status # 0

\* the step issues a command
CommandIssued == Len(calls') = Len(calls) + 1

NewCall == calls'[Len(calls')]

\* C11: in a real run a failure of the storage preparation, of the
\* clone+configure or of the start command, or of the connection, ends the run
\* at once with sys.exit(1), the session closed, and no command follows in that
\* run; a failure of a status query of the probe or of the stop does not end
\* the run.
C11_FailureIsFatal ==
    [][/\ (/\ CommandIssued
           /\ ~dry_run
           /\ IsSetup(NewCall) \/ IsClone(NewCall) \/ IsStart(NewCall)
           /\ ClaimFailed(last_resp'))
          => (pc' = "done" /\ outcome' = "exit1" /\ client' = "closed")
       /\ (/\ CommandIssued
           /\ ~dry_run
           /\ IsStatus(NewCall) \/ IsStop(NewCall)
           /\ ClaimFailed(last_resp'))
          => (pc' # "done" /\ outcome' = "running")
       /\ (pc = "connect" /\ faults' # faults)
          => (pc' = "done" /\ outcome' = "exit1" /\ calls' = <<>>)
       /\ (pc = "done" /\ run' = run) => calls' = calls]_vars

\* the clone failed in a run that had issued the stop, and the run has ended
C11_Witness ==
    /\ pc = "done"
    /\ outcome = "exit1"
    /\ ~dry_run
    /\ calls # <<>>
    /\ IsClone(calls[Len(calls)])
    /\ ClaimFailed(last_resp)
    /\ CountOf(IsStop) = 1
    /\ faults = 1

-----------------------------------------------------------------------------
(* C12 *)

\* C12: a run that has ended after its session object was created (the node
\* was resolved), by a record, by the operator's refusal or by sys.exit(1),
\* has closed the session; the session is not closed while the run goes on,
\* and a run that ended before the session existed has none.
C12_SessionClosed ==
    /\ (run >= 1 /\ pc = "done" /\ target_storage # <<>>) => client = "closed"
    /\ (run >= 1 /\ pc = "done" /\ target_storage = <<>>) => client = "None"
    /\ (run >= 1 /\ pc # "done") => client # "closed"

\* a run ended by sys.exit(1) on its storage preparation, the session closed
C12_Witness ==
    /\ pc = "done"
    /\ outcome = "exit1"
    /\ client = "closed"
    /\ CountOf(IsSetup) = 1
    /\ CountOf(IsClone) = 0

-----------------------------------------------------------------------------
(* Specification SpecInterrupt: deployment runs the operator may interrupt *)

\* KeyboardInterrupt raised at the statement the run is about to execute.  It
\* is not an Exception: the `except Exception` of line 313 lets it pass, the
\* finally closes the session and the interpreter ends with a traceback.  The
\* bare `except:` of the probe (line 261) and of the stop (lines 270 and 281)
\* catch it, and the run goes on.
Interrupt ==
    /\ pc \in {"deploy_init", "connect", "probe1", "probe2", "prompt", "stop", "setup",
               "clone", "start", "wait", "wait_returned"}
    /\ ~interrupted
    /\ interrupted' = TRUE
    /\ IF pc \in {"probe1", "probe2"}
       THEN /\ vm_exists' = FALSE
            /\ pc' = AfterProbe(FALSE)
            /\ UNCHANGED <<outcome, client>>
       ELSE IF pc = "stop"
       THEN /\ pc' = "setup"
            /\ UNCHANGED <<outcome, client, vm_exists>>
       ELSE /\ outcome' = "interrupted"
            /\ pc' = "done"
            /\ client' = IF pc = "deploy_init" THEN client ELSE "closed"
            /\ UNCHANGED vm_exists
    /\ UNCHANGED <<calls, config_text, target_storage, verdict, dry_run, cleanupLocals,
                   storageLocals, utilLocals, force, node_conf, answer, result, hv, run, prev_success, faults,
                   timeout, elapsed, json_out, wait_result, last_resp>>

NextInterrupt == NextDeploy \/ Interrupt

SpecInterrupt == InitDeploy /\ [][NextInterrupt]_vars

-----------------------------------------------------------------------------
(* C13 *)

\* C13 as the specification words it: a run in which an operator interrupt
\* arrived has ended by the clean abort, sys.exit(1), neither by an uncaught
\* KeyboardInterrupt nor by going on to its normal return; and once it has
\* ended nothing more is issued (no rollback).
C13_Original ==
    /\ (pc = "done" /\ interrupted) => outcome = "exit1"
    /\ interrupted => pc = "done"

-----------------------------------------------------------------------------
(* The hypervisor: what is at storage_path, as the remote commands of       *)
(* prepare_storage see and change it.  fs is the filesystem mounted on top   *)
(* ("none" when nothing is mounted), dir says that the mount point exists,   *)
(* layout that the four subdirectories exist in what is visible at the path. *)

Mount(fs, dir, layout) == [fs |-> fs, dir |-> dir, layout |-> layout]

MountStates ==
    {Mount("none", d, FALSE) : d \in BOOLEAN}
    \cup {Mount(fs, TRUE, l) : fs \in {"tmpfs", "ext4"}, l \in BOOLEAN}

FsOutcome(exit_status, out, m) == [exit_status |-> exit_status, out |-> out, mnt |-> m]

\* mount | grep ' <path> ' || true: the lines of the listing with the path as
\* mount point
FsCheck(m, path) ==
    {FsOutcome(0,
               IF m.fs = "none" THEN <<>>
               ELSE <<m.fs, " ", "on", " ">> \o path \o <<" ", "type", " ", m.fs, "\n">>,
               m)}

\* umount <path> || true: unmounts what is on top, unless the path is busy or
\* nothing is mounted; what lies under the mount may hold the layout or not
FsUmount(m) ==
    {FsOutcome(0, <<>>, m)}
    \cup (IF m.fs = "none" THEN {}
          ELSE {FsOutcome(0, <<>>, Mount("none", TRUE, l)) : l \in BOOLEAN})

\* mkdir -p <path>
FsMkdir(m) == {FsOutcome(0, <<>>, [m EXCEPT !.dir = TRUE])}

\* mount -t tmpfs -o size=<n>G tmpfs <path>: a fresh, empty tmpfs on top; fails
\* without the mount point
FsMountTmpfs(m) ==
    IF m.dir THEN {FsOutcome(0, <<>>, Mount("tmpfs", TRUE, FALSE))}
    ELSE {FsOutcome(32, <<>>, m)}

\* mkdir -p <path>/{images,snippets,iso,dump}
FsMkdirLayout(m) == {FsOutcome(0, <<>>, [m EXCEPT !.dir = TRUE, !.layout = TRUE])}

\* A command of prepare_storage reaching the hypervisor: one of its outcomes,
\* or the session is down, or (can_fail) the command fails for a reason of
\* its own; a failure leaves the path as it is.  In dry-run mode nothing
\* reaches the hypervisor.
StorageRun(outcomes, can_fail) ==
    IF dry_run THEN {[resp |-> Response(TRUE, <<>>, 0), mnt |-> mnt]}
    ELSE {[resp |-> Response(TRUE, o.out, o.exit_status), mnt |-> o.mnt] : o \in outcomes}
         \cup {[resp |-> TransportFailure, mnt |-> mnt]}
         \cup (IF can_fail THEN {[resp |-> Response(TRUE, <<>>, 1), mnt |-> mnt]} ELSE {})

-----------------------------------------------------------------------------
(* infra/proxmox.py: prepare_storage *)

\* invocations of prepare_storage in a row
MaxCalls == 2

StoragePaths == {<<"/", "mnt", "/", "ram_test">>, <<"/", "mnt", "/", "ram">>}

\* ram_size_gb, as str() writes it
RamSizes == {<<"16">>, <<"32">>}

StorageCall(cmd, arg) == Call("prepare_storage", cmd, arg, dry_run, FALSE)

\* mutant: the listing is not read
IsMountedNever(out) == FALSE

\* line 129: if out.strip()
IsMountedOf(out) == Strip(out) # <<>>

\* mutant: the size is left out of the mount command
MountArgNoSize(size, path) == <<" ", "tmpfs", " ">> \o path

\* line 143: what follows "mount -t tmpfs -o size=" in the mount command
MountArg(size, path) == size \o <<"G", " ", "tmpfs", " ">> \o path

\* variant: a mounted path is prepared anew
AfterCheckIgnoresMounted(mounted) ==
    IF force_remount THEN "storage_umount" ELSE "storage_mkdir"

\* variant: the unmount is issued only for a path found mounted
AfterCheckUmountIfMounted(mounted) ==
    IF mounted /\ ~force_remount THEN "storage_mounted"
    ELSE IF force_remount /\ mounted THEN "storage_umount"
    ELSE "storage_mkdir"

\* lines 132 and 137: where the call goes once is_mounted is known
AfterCheck(mounted) ==
    IF mounted /\ ~force_remount THEN "storage_mounted"
    ELSE IF force_remount THEN "storage_umount"
    ELSE "storage_mkdir"

\* the invocation ends, by return or by the exception of a command
Ended(log, raised) ==
    Append(history, [dry_run |-> dry_run, force_remount |-> force_remount,
                     calls |-> log, raised |-> raised])

InitStorage ==
    /\ pc = "storage_check"
    /\ calls = <<>>
    /\ config_text = <<>>
    /\ target_storage = <<>>
    /\ dry_run \in BOOLEAN
    /\ storage_path \in StoragePaths
    /\ ram_size_gb \in RamSizes
    /\ force_remount \in BOOLEAN
    /\ is_mounted = FALSE
    /\ mnt \in MountStates
    /\ history = <<>>
    /\ NoSafety
    /\ NoCleanup
    /\ NoDeploy
    /\ NoUtil

\* lines 124-130: the mount listing, not queried in dry-run mode
StorageCheck ==
    /\ pc = "storage_check"
    /\ IF dry_run
       THEN /\ is_mounted' = FALSE
            /\ pc' = AfterCheck(FALSE)
            /\ UNCHANGED <<calls, history, mnt, last_resp>>
       ELSE /\ calls' = Append(calls, StorageCall("mount | grep", storage_path))
            /\ \E x \in StorageRun(FsCheck(mnt, storage_path), FALSE) :
                 LET r == ExecuteSshCommand(FALSE, FALSE, x.resp) IN
                 /\ mnt' = x.mnt
                 /\ last_resp' = x.resp
                 /\ IF r.raised
                    THEN /\ pc' = "storage_idle"
                         /\ history' = Ended(calls', TRUE)
                         /\ UNCHANGED is_mounted
                    ELSE /\ is_mounted' = IsMountedOf(r.out)
                         /\ pc' = AfterCheck(is_mounted')
                         /\ UNCHANGED history
    /\ UNCHANGED <<config_text, target_storage, verdict, dry_run, cleanupLocals,
                   deployQuiet, utilLocals, storage_path, ram_size_gb, force_remount>>

\* lines 132-135: already mounted and no remount asked: the layout, and return
StorageMounted ==
    /\ pc = "storage_mounted"
    /\ calls' = Append(calls, StorageCall("mkdir -p {images,snippets,iso,dump}",
                                          storage_path))
    /\ \E x \in StorageRun(FsMkdirLayout(mnt), TRUE) :
         /\ mnt' = x.mnt
         /\ last_resp' = x.resp
         /\ history' = Ended(calls', ExecuteSshCommand(dry_run, FALSE, x.resp).raised)
    /\ pc' = "storage_idle"
    /\ UNCHANGED <<config_text, target_storage, verdict, dry_run, cleanupLocals,
                   deployQuiet, utilLocals, storage_path, ram_size_gb, force_remount,
                   is_mounted>>

\* lines 137-139: umount || true
StorageUmount ==
    /\ pc = "storage_umount"
    /\ calls' = Append(calls, StorageCall("umount || true", storage_path))
    /\ \E x \in StorageRun(FsUmount(mnt), FALSE) :
         /\ mnt' = x.mnt
         /\ last_resp' = x.resp
         /\ IF ExecuteSshCommand(dry_run, FALSE, x.resp).raised
            THEN pc' = "storage_idle" /\ history' = Ended(calls', TRUE)
            ELSE pc' = "storage_mkdir" /\ UNCHANGED history
    /\ UNCHANGED <<config_text, target_storage, verdict, dry_run, cleanupLocals,
                   deployQuiet, utilLocals, storage_path, ram_size_gb, force_remount,
                   is_mounted>>

\* line 142: mkdir -p of the mount point
StorageMkdir ==
    /\ pc = "storage_mkdir"
    /\ calls' = Append(calls, StorageCall("mkdir -p", storage_path))
    /\ \E x \in StorageRun(FsMkdir(mnt), TRUE) :
         /\ mnt' = x.mnt
         /\ last_resp' = x.resp
         /\ IF ExecuteSshCommand(dry_run, FALSE, x.resp).raised
            THEN pc' = "storage_idle" /\ history' = Ended(calls', TRUE)
            ELSE pc' = "storage_mount" /\ UNCHANGED history
    /\ UNCHANGED <<config_text, target_storage, verdict, dry_run, cleanupLocals,
                   deployQuiet, utilLocals, storage_path, ram_size_gb, force_remount,
                   is_mounted>>

\* variant: the tmpfs mount is issued with its failure ignored
StorageMountTolerant ==
    /\ pc = "storage_mount"
    /\ calls' = Append(calls, StorageCall("mount -t tmpfs -o size=",
                                          MountArg(ram_size_gb, storage_path)))
    /\ \E x \in StorageRun(FsMountTmpfs(mnt), TRUE) :
         /\ mnt' = x.mnt
         /\ last_resp' = x.resp
         /\ IF ExecuteSshCommand(dry_run, TRUE, x.resp).raised
            THEN pc' = "storage_idle" /\ history' = Ended(calls', TRUE)
            ELSE pc' = "storage_layout" /\ UNCHANGED history
    /\ UNCHANGED <<config_text, target_storage, verdict, dry_run, cleanupLocals,
                   deployQuiet, utilLocals, storage_path, ram_size_gb, force_remount,
                   is_mounted>>

\* line 143: the tmpfs mount
StorageMount ==
    /\ pc = "storage_mount"
    /\ calls' = Append(calls, StorageCall("mount -t tmpfs -o size=",
                                          MountArg(ram_size_gb, storage_path)))
    /\ \E x \in StorageRun(FsMountTmpfs(mnt), TRUE) :
         /\ mnt' = x.mnt
         /\ last_resp' = x.resp
         /\ IF ExecuteSshCommand(dry_run, FALSE, x.resp).raised
            THEN pc' = "storage_idle" /\ history' = Ended(calls', TRUE)
            ELSE pc' = "storage_layout" /\ UNCHANGED history
    /\ UNCHANGED <<config_text, target_storage, verdict, dry_run, cleanupLocals,
                   deployQuiet, utilLocals, storage_path, ram_size_gb, force_remount,
                   is_mounted>>

\* lines 144-146: the layout, and the function returns
StorageLayout ==
    /\ pc = "storage_layout"
    /\ calls' = Append(calls, StorageCall("mkdir -p {images,snippets,iso,dump}",
                                          storage_path))
    /\ \E x \in StorageRun(FsMkdirLayout(mnt), TRUE) :
         /\ mnt' = x.mnt
         /\ last_resp' = x.resp
         /\ history' = Ended(calls', ExecuteSshCommand(dry_run, FALSE, x.resp).raised)
    /\ pc' = "storage_idle"
    /\ UNCHANGED <<config_text, target_storage, verdict, dry_run, cleanupLocals,
                   deployQuiet, utilLocals, storage_path, ram_size_gb, force_remount,
                   is_mounted>>

\* prepare_storage is called again on the same path
StorageAgain ==
    /\ pc = "storage_idle"
    /\ Len(history) < MaxCalls
    /\ pc' = "storage_check"
    /\ calls' = <<>>
    /\ dry_run' \in BOOLEAN
    /\ force_remount' \in BOOLEAN
    /\ is_mounted' = FALSE
    /\ UNCHANGED <<config_text, target_storage, verdict, cleanupLocals, deployLocals,
                   utilLocals, storage_path, ram_size_gb, mnt, history>>

NextStorage ==
    \/ StorageCheck
    \/ StorageMounted
    \/ StorageUmount
    \/ StorageMkdir
    \/ StorageMount
    \/ StorageLayout
    \/ StorageAgain

SpecStorage == InitStorage /\ [][NextStorage]_vars

-----------------------------------------------------------------------------
(* The claims' reading of an invocation of prepare_storage, stated on the *)
(* commands it passed to the executor                                      *)

IsMountListing(c) == c.cmd = "mount | grep"

IsTmpfsMount(c) == c.cmd = "mount -t tmpfs -o size="

IsUmount(c) == c.cmd = "umount || true"

IsMkdirPoint(c) == c.cmd = "mkdir -p"

IsMkdirLayout(c) == c.cmd = "mkdir -p {images,snippets,iso,dump}"

Has(log, P(_)) == \E i \in 1..Len(log) : P(log[i])

\* the invocation was a real one, without forced remount
ClaimPlain(h) == ~h.dry_run /\ ~h.force_remount

-----------------------------------------------------------------------------
(* C14 *)

\* C14: of two real invocations of prepare_storage in a row on the same path,
\* both with force_remount false, the first having returned normally, the
\* second issues no mount command; the first issues the mkdir of the
\* four-subdirectory layout, and so does the second, unless its mount listing
\* could not be fetched at all.
C14_SecondCallNoMount ==
    \A i \in 1..(Len(history) - 1) :
        (ClaimPlain(history[i]) /\ ClaimPlain(history[i + 1]) /\ ~history[i].raised)
        => /\ ~Has(history[i + 1].calls, IsTmpfsMount)
           /\ Has(history[i].calls, IsMkdirLayout)
           /\ \/ Has(history[i + 1].calls, IsMkdirLayout)
              \/ (history[i + 1].raised /\ Len(history[i + 1].calls) = 1)
           /\ \A j \in 1..Len(history[i + 1].calls) : ~history[i + 1].calls[j].dry_run

\* the first invocation mounted the tmpfs, the second found it and issued the
\* listing and the layout only
C14_Witness ==
    /\ Len(history) = 2
    /\ ClaimPlain(history[1]) /\ ClaimPlain(history[2])
    /\ ~history[1].raised /\ ~history[2].raised
    /\ Has(history[1].calls, IsTmpfsMount)
    /\ Len(history[2].calls) = 2
    /\ IsMkdirLayout(history[2].calls[2])

-----------------------------------------------------------------------------
(* C15 *)

\* C15 as the specification words it: after an invocation that was real and
\* returned normally, whatever was at the path before and whatever
\* force_remount, the path is a tmpfs mount holding the four subdirectories
C15_Original ==
    (/\ pc = "storage_idle"
     /\ history # <<>>
     /\ ~history[Len(history)].dry_run
     /\ ~history[Len(history)].raised)
    => (mnt.fs = "tmpfs" /\ mnt.layout)

-----------------------------------------------------------------------------
(* C16 *)

\* the commands of an invocation, the unmount of a forced remount left out
ClaimSteps(h) == SelectSeq(h.calls, LAMBDA c : ~IsUmount(c))

ClaimEndsWith(s, t) == Len(s) >= Len(t) /\ SubSeq(s, Len(s) - Len(t) + 1, Len(s)) = t

\* C16: a dry-run invocation passes no mount listing query to the executor and
\* takes the path as not mounted; it passes, in this order, the mkdir of the
\* mount point, the tmpfs mount carrying size=<ram_size_gb>G and the path, and
\* the mkdir of the layout (after the umount when force_remount is set), each
\* with dry_run set, and returns normally.
C16_DryRunCommands ==
    /\ \A i \in 1..Len(history) :
          history[i].dry_run =>
             LET steps == ClaimSteps(history[i]) IN
             /\ ~history[i].raised
             /\ ~Has(history[i].calls, IsMountListing)
             /\ \A j \in 1..Len(history[i].calls) : history[i].calls[j].dry_run
             /\ Len(steps) = 3
             /\ IsMkdirPoint(steps[1]) /\ steps[1].arg = storage_path
             /\ IsTmpfsMount(steps[2])
             /\ SubSeq(steps[2].arg, 1, 2) = ram_size_gb \o <<"G">>
             /\ ClaimEndsWith(steps[2].arg, <<" ">> \o storage_path)
             /\ IsMkdirLayout(steps[3]) /\ steps[3].arg = storage_path
             /\ Has(history[i].calls, IsUmount)
                   <=> (history[i].force_remount /\ IsUmount(history[i].calls[1]))
    /\ (dry_run /\ pc \in {"storage_mounted", "storage_umount", "storage_mkdir",
                           "storage_mount", "storage_layout"}) => ~is_mounted

\* a dry-run invocation on a path that holds a mounted tmpfs has ended
C16_Witness ==
    /\ Len(history) = 1
    /\ history[1].dry_run
    /\ ~history[1].force_remount
    /\ Len(history[1].calls) = 3
    /\ mnt.fs = "tmpfs"

-----------------------------------------------------------------------------
(* infra/ssh_utils.py and infra/deploy.py: wait_for_ip called on its own.   *)
(* The two copies have the same loop and differ in the executor they call.  *)

\* the largest timeout argument
MaxTimeout == 7

\* the timeout argument, in seconds
Timeouts == (-1)..MaxTimeout

\* a poll that errors: the session raises, or the command fails and prints
\* nothing
ErrorResponses == {TransportFailure, Response(TRUE, <<>>, 1)}

\* execute_ssh_command as the copy impl of wait_for_ip calls it
ExecuteOf(copy, dry, ignore, resp) ==
    IF copy = "deploy" THEN DeployExecuteSshCommand(dry, ignore, resp)
    ELSE ExecuteSshCommand(dry, ignore, resp)

InitWait ==
    /\ pc = "poller"
    /\ calls = <<>>
    /\ config_text = <<>>
    /\ target_storage = <<>>
    /\ dry_run \in BOOLEAN
    /\ impl \in {"ssh_utils", "deploy"}
    /\ always_errors \in BOOLEAN
    /\ timeout \in Timeouts
    /\ elapsed = 0
    /\ json_out = <<>>
    /\ wait_result = None
    /\ last_resp = NoReply
    /\ force = FALSE
    /\ node_conf = <<>>
    /\ client = "None"
    /\ vm_exists = FALSE
    /\ answer = "unasked"
    /\ result = <<>>
    /\ outcome = "running"
    /\ hv = <<>>
    /\ run = 0
    /\ prev_success = FALSE
    /\ faults = 0
    /\ interrupted = FALSE
    /\ ignore_flag = FALSE
    /\ exec_result = <<>>
    /\ parsed = <<>>
    /\ NoSafety
    /\ NoCleanup
    /\ NoStorage

\* ssh_utils.py lines 110-112 (deploy.py 156-158): in dry-run mode the first
\* pass of the loop returns
PollerDryRun ==
    /\ pc = "poller"
    /\ elapsed < timeout
    /\ dry_run
    /\ wait_result' = DryRunIp
    /\ pc' = "wait_done"
    /\ UNCHANGED <<calls, config_text, target_storage, verdict, dry_run, cleanupLocals,
                   storageLocals, utilLocals, deployIdle, timeout, elapsed, json_out,
                   last_resp>>

\* mutant: an attempt that raised is retried without sleeping
PollerPollNoSleepOnError ==
    /\ pc = "poller"
    /\ elapsed < timeout
    /\ ~dry_run
    /\ calls' = Append(calls, Call("wait_for_ip", "qm guest cmd network-get-interfaces",
                                   new_vm_id, FALSE, TRUE))
    /\ \E resp \in (IF always_errors THEN ErrorResponses
                    ELSE AgentResponses \cup ErrorResponses),
          d \in PollDurations :
        LET r == ExecuteOf(impl, FALSE, TRUE, resp)
            ip == IF r.raised THEN None ELSE PollResult(r.out)
        IN /\ last_resp' = resp
           /\ json_out' = IF r.raised THEN json_out ELSE r.out
           /\ IF ip # None
              THEN /\ wait_result' = ip
                   /\ pc' = "wait_done"
                   /\ elapsed' = elapsed + d
              ELSE /\ elapsed' = elapsed + d + (IF r.raised THEN 0 ELSE PollInterval)
                   /\ UNCHANGED <<wait_result, pc>>
    /\ UNCHANGED <<config_text, target_storage, verdict, dry_run, cleanupLocals,
                   storageLocals, utilLocals, deployIdle, timeout>>

\* variant: after an empty answer the attempt sleeps twice (the sleep of the
\* empty-output test without its continue)
PollerPollEmptySleepsTwice ==
    /\ pc = "poller"
    /\ elapsed < timeout
    /\ ~dry_run
    /\ calls' = Append(calls, Call("wait_for_ip", "qm guest cmd network-get-interfaces",
                                   new_vm_id, FALSE, TRUE))
    /\ \E resp \in (IF always_errors THEN ErrorResponses
                    ELSE AgentResponses \cup ErrorResponses),
          d \in PollDurations :
        LET r == ExecuteOf(impl, FALSE, TRUE, resp)
            ip == IF r.raised THEN None ELSE PollResult(r.out)
        IN /\ last_resp' = resp
           /\ json_out' = IF r.raised THEN json_out ELSE r.out
           /\ IF ip # None
              THEN /\ wait_result' = ip
                   /\ pc' = "wait_done"
                   /\ elapsed' = elapsed + d
              ELSE /\ elapsed' = elapsed + d
                                 + (IF ~r.raised /\ r.out = <<>> THEN 2 ELSE 1) * PollInterval
                   /\ UNCHANGED <<wait_result, pc>>
    /\ UNCHANGED <<config_text, target_storage, verdict, dry_run, cleanupLocals,
                   storageLocals, utilLocals, deployIdle, timeout>>

\* ssh_utils.py lines 114-154 (deploy.py 160-190): one poll.  The command
\* takes d seconds; an attempt that does not return sleeps PollInterval seconds.
PollerPoll ==
    /\ pc = "poller"
    /\ elapsed < timeout
    /\ ~dry_run
    /\ calls' = Append(calls, Call("wait_for_ip", "qm guest cmd network-get-interfaces",
                                   new_vm_id, FALSE, TRUE))
    /\ \E resp \in (IF always_errors THEN ErrorResponses
                    ELSE AgentResponses \cup ErrorResponses),
          d \in PollDurations :
        LET r == ExecuteOf(impl, FALSE, TRUE, resp)
            ip == IF r.raised THEN None ELSE PollResult(r.out)
        IN /\ last_resp' = resp
           /\ json_out' = IF r.raised THEN json_out ELSE r.out
           /\ IF ip # None
              THEN /\ wait_result' = ip
                   /\ pc' = "wait_done"
                   /\ elapsed' = elapsed + d
              ELSE /\ elapsed' = elapsed + d + PollInterval
                   /\ UNCHANGED <<wait_result, pc>>
    /\ UNCHANGED <<config_text, target_storage, verdict, dry_run, cleanupLocals,
                   storageLocals, utilLocals, deployIdle, timeout>>

\* ssh_utils.py lines 156-157 (deploy.py 192-193): the loop condition fails
PollerTimeout ==
    /\ pc = "poller"
    /\ elapsed >= timeout
    /\ wait_result' = None
    /\ pc' = "wait_done"
    /\ UNCHANGED <<calls, config_text, target_storage, verdict, dry_run, cleanupLocals,
                   storageLocals, utilLocals, deployIdle, timeout, elapsed, json_out,
                   last_resp>>

NextWait ==
    \/ PollerDryRun
    \/ PollerPoll
    \/ PollerTimeout

SpecWait == InitWait /\ [][NextWait]_vars

-----------------------------------------------------------------------------
(* C17 *)

\* ceil(t / 3) for a timeout t, none for a timeout that is not positive
ClaimMaxAttempts(t) == IF t <= 0 THEN 0 ELSE (t + 2) \div 3

\* C17: with a transport that answers every poll by an error, wait_for_ip
\* ends (it has no raising exit), returns None, not before the timeout has
\* elapsed, and at no moment has it made more than ceil(timeout / 3) polls.
C17_ErrorsBounded ==
    (always_errors /\ ~dry_run /\ pc \in {"poller", "wait_done"})
    => /\ CountOf(IsPoll) <= ClaimMaxAttempts(timeout)
       /\ wait_result = <<>>
       /\ pc = "wait_done" => elapsed >= timeout
       /\ (pc = "poller" /\ elapsed < timeout) => CountOf(IsPoll) < ClaimMaxAttempts(timeout)

\* the largest number of polls was made and the function has returned None
C17_Witness ==
    /\ always_errors
    /\ ~dry_run
    /\ pc = "wait_done"
    /\ timeout = 7
    /\ CountOf(IsPoll) = 3
    /\ wait_result = <<>>

-----------------------------------------------------------------------------
(* C18 *)

\* C18 as the specification words it: in dry-run mode the sentinel is
\* returned whatever the timeout, no poll having been issued and no time
\* having been slept
C18_Original ==
    (dry_run /\ pc = "wait_done")
    => (wait_result = <<"10.", "DRY.RUN.IP">> /\ calls = <<>> /\ elapsed = 0)

\* C18 (amended): in dry-run mode wait_for_ip returns at once, without a poll
\* and without sleeping: the sentinel for every positive timeout, None for a
\* timeout that is zero or negative (the loop is not entered).
C18_DryRunSentinel ==
    /\ (dry_run /\ pc = "wait_done")
       => /\ wait_result = (IF timeout > 0 THEN <<"10.", "DRY.RUN.IP">> ELSE <<>>)
          /\ calls = <<>>
          /\ elapsed = 0
    /\ (dry_run /\ pc = "poller") => (calls = <<>> /\ elapsed = 0)

\* a dry-run call with the shortest positive timeout has returned the sentinel
C18_Witness ==
    /\ dry_run
    /\ pc = "wait_done"
    /\ timeout = 1
    /\ wait_result = <<"10.", "DRY.RUN.IP">>

-----------------------------------------------------------------------------
(* C19 *)

\* C19: outside dry-run mode a non-null address returned by wait_for_ip is,
\* in the reply of the last poll, the first address in list order that is
\* IPv4, starts with "10." and belongs to an interface other than "lo"; the
\* poll that gave it is the last one issued, and while the loop goes on
\* nothing has been found.
C19_FirstQualifying ==
    /\ (pc = "wait_done" /\ ~dry_run /\ wait_result # <<>>)
       => /\ ClaimFoundByPoller(wait_result)
          /\ calls # <<>>
          /\ last_resp.transport
          /\ json_out # <<>>
    /\ pc = "poller" => wait_result = <<>>

\* the address of eth0 was returned from a reply that lists the loopback and a
\* docker bridge before it, after a poll that gave nothing
C19_Witness ==
    /\ pc = "wait_done"
    /\ ~dry_run
    /\ wait_result = <<"10.", "0.0.5">>
    /\ Len(ClaimReply.data) = 3
    /\ CountOf(IsPoll) = 2

-----------------------------------------------------------------------------
(* infra/ssh_utils.py and infra/deploy.py: execute_ssh_command called on   *)
(* its own, on every answer of the session                                  *)

\* raw stdout of a remote command
ExecStdouts ==
    { <<>>,
      <<"\n">>,
      <<"ok">>,
      <<" ", "ok", " ", "done", "\n">>,
      <<"transferred", " ", "50", "%", "\n", "done", "\n">>,
      <<"cloning", "\n", "transferred", " ", "99", "%">>,
      <<"transferred", " ", "bytes", "\n", "done">> }

ExitStatuses == {0, 1, 2}

\* what the session would answer
ExecResponses ==
    {Response(TRUE, o, e) : o \in ExecStdouts, e \in ExitStatuses} \cup {TransportFailure}

InitExec ==
    /\ pc = "exec_call"
    /\ calls = <<>>
    /\ config_text = <<>>
    /\ target_storage = <<>>
    /\ dry_run \in BOOLEAN
    /\ impl \in {"ssh_utils", "deploy"}
    /\ ignore_flag \in BOOLEAN
    /\ last_resp \in ExecResponses
    /\ exec_result = <<>>
    /\ parsed = <<>>
    /\ always_errors = FALSE
    /\ timeout = 0
    /\ elapsed = 0
    /\ json_out = <<>>
    /\ wait_result = None
    /\ force = FALSE
    /\ node_conf = <<>>
    /\ client = "None"
    /\ vm_exists = FALSE
    /\ answer = "unasked"
    /\ result = <<>>
    /\ outcome = "running"
    /\ hv = <<>>
    /\ run = 0
    /\ prev_success = FALSE
    /\ faults = 0
    /\ interrupted = FALSE
    /\ NoSafety
    /\ NoCleanup
    /\ NoStorage

\* ssh_utils.py lines 43-92 (deploy.py 115-142): one call.  In dry-run mode the
\* function returns before client.exec_command; contacted records whether
\* exec_command was called.
ExecCall ==
    /\ pc = "exec_call"
    /\ calls' = Append(calls, Call(impl, "command", <<>>, dry_run, ignore_flag))
    /\ LET r == ExecuteOf(impl, dry_run, ignore_flag, last_resp) IN
       exec_result' = [raised |-> r.raised, out |-> r.out, contacted |-> ~dry_run]
    /\ pc' = "exec_done"
    /\ UNCHANGED <<config_text, target_storage, verdict, dry_run, cleanupLocals,
                   storageLocals, deployIdle, timeout, elapsed, json_out, wait_result,
                   last_resp, impl, always_errors, ignore_flag, parsed>>

NextExec == ExecCall

SpecExec == InitExec /\ [][NextExec]_vars

-----------------------------------------------------------------------------
(* C20 *)

\* a line of a progress bar
ClaimProgress(line) ==
    (\E i \in 1..Len(line) : line[i] = "transferred") /\ (\E i \in 1..Len(line) : line[i] = "%")

\* the returned text is the captured stdout: the raw stdout trimmed, from
\* which ssh_utils drops the lines of a progress bar and nothing else
ClaimCaptured(out, raw) ==
    LET trimmed == Strip(raw)
        lines == SplitLines(trimmed)
    IN /\ (impl = "deploy" \/ \A i \in 1..Len(lines) : ~ClaimProgress(lines[i]))
          => out = trimmed
       /\ \A i \in 1..Len(SplitLines(out)) :
             /\ ~ClaimProgress(SplitLines(out)[i]) \/ impl = "deploy"
             /\ \E j \in 1..Len(lines) : lines[j] = SplitLines(out)[i]

\* C20: when the session answers, execute_ssh_command raises exactly when the
\* exit status is non-zero and ignore_errors is false; with ignore_errors true
\* it returns the captured stdout whatever the exit status; in dry-run mode it
\* returns the mock payload and exec_command is not called.  (When the
\* session itself fails there is no exit status and its exception passes
\* through.)
C20_RaisesIffFailed ==
    pc = "exec_done" =>
        /\ dry_run => /\ ~exec_result.raised
                      /\ exec_result.out = <<"MOCK_OUTPUT_JSON">>
                      /\ ~exec_result.contacted
        /\ (~dry_run /\ last_resp.transport)
           => /\ exec_result.raised <=> (last_resp.exit_status # 0 /\ ~ignore_flag)
              /\ ~exec_result.raised => ClaimCaptured(exec_result.out, last_resp.out)
              /\ exec_result.contacted
        /\ (~dry_run /\ ~last_resp.transport) => exec_result.raised

\* a failing command whose stdout carries a progress bar was run by ssh_utils
\* with ignore_errors and returned the rest of the output
C20_Witness ==
    /\ pc = "exec_done"
    /\ impl = "ssh_utils"
    /\ ~dry_run
    /\ ignore_flag
    /\ last_resp.transport
    /\ last_resp.exit_status = 2
    /\ ~exec_result.raised
    /\ exec_result.out = <<"done">>

-----------------------------------------------------------------------------
(* C21 *)

\* the required fields of a node that the node records of the deployment carry
\* (storage_path is read by no statement of deploy.py)
ClaimRequiredFields == {"host", "user", "key_path", "storage"}

ClaimMissingFields(conf) == {f \in ClaimRequiredFields : conf[f] = Absent}

\* C21 as the specification words it: when the selected node is described in
\* the configuration but lacks a required field, the deployment run opens no
\* connection and issues no remote command
C21_Original ==
    (node_conf.configured /\ ClaimMissingFields(node_conf) # {}) =>
        (client = "None" /\ calls = <<>>)

-----------------------------------------------------------------------------
(* C22 *)

ClaimNumericPath(p) == IsDigit(VmIdOf(p))

ClaimCatArgs ==
    LET cats == SelectSeq(calls, IsCat) IN [i \in 1..Len(cats) |-> cats[i].arg]

\* C22: in cleanup_ram_vms a failure while fetching, analysing or destroying
\* one VM does not abort the pass: when the pass has ended after a non-empty
\* listing, the loop has gone through every listed file, the content of every
\* listed file with a numeric ID has been asked for, in listing order, and
\* every recorded failure belongs to a listed file; the function ends by
\* returning (it has no raising exit)
C22_FailureDoesNotAbort ==
    (pc = "done" /\ config_files # <<>>) =>
        /\ file_idx = Len(config_files) + 1
        /\ ClaimCatArgs = SelectSeq(config_files, ClaimNumericPath)
        /\ \A k \in 1..Len(failures) :
              \E i \in 1..Len(config_files) : failures[k] = config_files[i]

\* the pass has ended; the destroy of the first of two VMs failed and the
\* second VM was still fetched
C22_Witness ==
    /\ pc = "done"
    /\ Len(config_files) = 2
    /\ failures = <<config_files[1]>>
    /\ \E j \in 1..Len(calls) : IsDestroy(calls[j]) /\ calls[j].arg = VmIdOf(config_files[1])
    /\ Len(ClaimCatArgs) = 2
    /\ ClaimCatArgs[2] = config_files[2]

-----------------------------------------------------------------------------
(* C23 *)

\* the command issued last by the pass
ClaimLast == calls[Len(calls)]

\* the listed file of the VM the command issued last is about
ClaimLastFile ==
    config_files[CHOOSE i \in 1..Len(config_files) : VmIdOf(config_files[i]) = ClaimLast.arg]

\* the stop command returned to cleanup_ram_vms: the session answered it,
\* with whatever exit status
ClaimStopReturned == dry_run \/ last_resp.transport

\* C23: for every listed VM whose fetched configuration is classified safe,
\* cleanup_ram_vms issues "qm stop <id> --skiplock" with failures ignored and
\* then "qm destroy <id> --skiplock --purge" for the same ID: a destroy
\* directly follows a stop for its ID, a stop directly follows the cat of
\* that VM's file, a safe classification leads to the stop, a stop that
\* returned (also with a non-zero exit status) leads to the destroy, and a
\* failing destroy is logged as a failure of that VM's file while a
\* succeeding one is not
C23_StopThenDestroy ==
    /\ \A j \in 1..Len(calls) :
          IsDestroy(calls[j]) =>
              /\ j > 1
              /\ IsStop(calls[j - 1])
              /\ calls[j - 1].arg = calls[j].arg
              /\ calls[j - 1].ignore_errors
              /\ ~calls[j].ignore_errors
    /\ \A j \in 1..Len(calls) :
          (IsStop(calls[j]) /\ calls[j].by = "cleanup_ram_vms") =>
              /\ j > 1
              /\ IsCat(calls[j - 1])
              /\ VmIdOf(calls[j - 1].arg) = calls[j].arg
    /\ (/\ calls # <<>>
        /\ IsCat(ClaimLast)
        /\ fetched_path = ClaimLast.arg
        /\ ClaimSafe(config_text, target_storage)) => pc = "cleanup_stop"
    /\ (calls # <<>> /\ IsStop(ClaimLast) /\ ClaimStopReturned) => pc = "cleanup_destroy"
    /\ (calls # <<>> /\ IsDestroy(ClaimLast)) =>
          /\ \E i \in 1..Len(config_files) : VmIdOf(config_files[i]) = ClaimLast.arg
          /\ (~dry_run /\ ClaimFailed(last_resp)) <=>
                (failures # <<>> /\ failures[Len(failures)] = ClaimLastFile)

\* the stop of a safe VM came back with a non-zero exit status and the pass
\* is about to issue the destroy for the same ID
C23_Witness ==
    /\ pc = "cleanup_destroy"
    /\ ~dry_run
    /\ IsStop(ClaimLast)
    /\ ClaimLast.arg = vm_id
    /\ last_resp.transport
    /\ last_resp.exit_status # 0

-----------------------------------------------------------------------------
(* Specification SpecParse: parse_vm_config applied to every input *)

\* lines of a configuration text: settings (with a repeated key, whitespace
\* around key and value, a value that contains colons, an empty key, an empty
\* value), blank lines, comments and lines without a colon
ParseInputLines ==
    { KeyLine(<<"memory">>, <<"1024">>),
      <<" ", "memory", " ", ":", "4096", " ">>,
      KeyLine(<<"scsi", "0">>, <<"ram", ":", "vm-", "disk", "-0.", "qcow2">>),
      <<"scsi", "0", ":", "local", ":", "iso/image", ".iso">>,
      <<":", "1024">>,
      <<"name", ":">>,
      <<>>,
      <<" ">>,
      <<"#", "comment", ":", " ", "1024">>,
      <<" ", "#", "memory", ":", " ", "1024">>,
      <<"[", "snap1", "]">> }

ParseInputTexts == {JoinLines(ls) : ls \in SeqsUpTo(ParseInputLines, MaxLines)}

InitParse ==
    /\ pc = "parse_call"
    /\ calls = <<>>
    /\ config_text \in ParseInputTexts
    /\ target_storage = <<>>
    /\ dry_run = FALSE
    /\ impl = "none"
    /\ always_errors = FALSE
    /\ ignore_flag = FALSE
    /\ exec_result = <<>>
    /\ parsed = <<>>
    /\ NoSafety
    /\ NoCleanup
    /\ NoDeploy
    /\ NoStorage

\* lines 11-24: one call of parse_vm_config
CallParseVmConfig ==
    /\ pc = "parse_call"
    /\ parsed' = ParseVmConfig(config_text)
    /\ pc' = "parsed"
    /\ UNCHANGED <<calls, config_text, target_storage, verdict, dry_run, cleanupLocals,
                   deployLocals, storageLocals, impl, always_errors, ignore_flag,
                   exec_result>>

NextParse == CallParseVmConfig

SpecParse == InitParse /\ [][NextParse]_vars

-----------------------------------------------------------------------------
(* C24 *)

\* s without its leading and trailing blanks
ClaimTrim(s) ==
    LET ink == {i \in 1..Len(s) : s[i] \notin {" ", "\n"}} IN
    IF ink = {} THEN <<>>
    ELSE SubSeq(s, CHOOSE i \in ink : \A j \in ink : i <= j,
                   CHOOSE i \in ink : \A j \in ink : j <= i)

\* the place of the first colon of a line that has one
ClaimColon(line) ==
    CHOOSE i \in 1..Len(line) : line[i] = ":" /\ \A j \in 1..(i - 1) : line[j] # ":"

\* the line is not blank, is not a comment and has a colon
ClaimContributes(line) ==
    /\ ClaimTrim(line) # <<>>
    /\ ClaimTrim(line)[1] # "#"
    /\ \E i \in 1..Len(line) : line[i] = ":"

ClaimLineKey(line) == ClaimTrim(SubSeq(line, 1, ClaimColon(line) - 1))

ClaimLineValue(line) == ClaimTrim(SubSeq(line, ClaimColon(line) + 1, Len(line)))

\* C24: parse_vm_config maps text to key/value pairs: blank lines, lines
\* starting with # and lines without a colon contribute nothing; every other
\* line is split on its first colon only, key and value are trimmed, and for
\* a duplicate key the last occurrence wins.  A line is judged blank or a
\* comment after its surrounding whitespace is removed.
C24_ParseMapping ==
    pc = "parsed" =>
        LET lines == SplitLines(config_text)
            idx == {i \in 1..Len(lines) : ClaimContributes(lines[i])}
        IN /\ {parsed[k].key : k \in 1..Len(parsed)} = {ClaimLineKey(lines[i]) : i \in idx}
           /\ \A k, l \in 1..Len(parsed) : k # l => parsed[k].key # parsed[l].key
           /\ \A k \in 1..Len(parsed) :
                 LET same == {i \in idx : ClaimLineKey(lines[i]) = parsed[k].key}
                     last == CHOOSE i \in same : \A j \in same : j <= i
                 IN parsed[k].value = ClaimLineValue(lines[last])

\* a key given twice, with whitespace around the second occurrence and a value
\* that contains colons: the later value is the one returned
C24_Witness ==
    /\ pc = "parsed"
    /\ config_text = JoinLines(<<KeyLine(<<"scsi", "0">>,
                                         <<"ram", ":", "vm-", "disk", "-0.", "qcow2">>),
                                 <<"scsi", "0", ":", "local", ":", "iso/image", ".iso">>>>)
    /\ parsed = <<[key |-> <<"scsi", "0">>, value |-> <<"local", ":", "iso/image", ".iso">>]>>

-----------------------------------------------------------------------------
(* C25 *)

\* the mapping written back as one "key: value" line per pair
ClaimSerialize(config) ==
    JoinLines([k \in 1..Len(config) |-> config[k].key \o <<":", " ">> \o config[k].value])

\* C25: parsing a text, writing the resulting mapping back as "key: value"
\* lines and parsing that again yields the same mapping as the first parse
C25_RoundTrip ==
    pc = "parsed" => ParseVmConfig(ClaimSerialize(parsed)) = parsed

\* a text with a comment and a setting written with extra whitespace: the
\* text written back differs from the input and still parses to the mapping
C25_Witness ==
    /\ pc = "parsed"
    /\ config_text = JoinLines(<<<<"#", "comment", ":", " ", "1024">>,
                                 <<" ", "memory", " ", ":", "4096", " ">>>>)
    /\ ClaimSerialize(parsed) = <<"memory", ":", " ", "4096">>
    /\ ClaimSerialize(parsed) # config_text
    /\ ParseVmConfig(ClaimSerialize(parsed)) = parsed

-----------------------------------------------------------------------------
(* C26 *)

\* the commands of the running invocation, by name
ClaimCmds == [i \in 1..Len(calls) |-> calls[i].cmd]

\* the listing of a real invocation has been answered and nothing else issued
ClaimListed == ~dry_run /\ Len(calls) = 1 /\ IsMountListing(calls[1]) /\ pc # "storage_idle"

\* C26: when storage_path is already mounted and force_remount is false,
\* prepare_storage issues no unmount, no mkdir of the mount point and no mount
\* command: after the listing it issues the mkdir of the
\* images/snippets/iso/dump layout only, and returns.  A path is taken as
\* mounted exactly when something is mounted at it.
C26_MountedLeftAlone ==
    /\ ClaimListed => (is_mounted <=> mnt.fs # "none")
    /\ (ClaimListed /\ mnt.fs # "none" /\ ~force_remount) => pc = "storage_mounted"
    /\ (is_mounted /\ ~force_remount /\ pc = "storage_idle") =>
          /\ ClaimCmds = <<"mount | grep", "mkdir -p {images,snippets,iso,dump}">>
          /\ calls[2].arg = storage_path
          /\ history[Len(history)].calls = calls
    /\ (is_mounted /\ ~force_remount) =>
          /\ ~Has(calls, IsUmount)
          /\ ~Has(calls, IsMkdirPoint)
          /\ ~Has(calls, IsTmpfsMount)

\* a real invocation without forced remount found an ext4 mount at the path,
\* issued the layout mkdir and returned
C26_Witness ==
    /\ pc = "storage_idle"
    /\ is_mounted
    /\ ~force_remount
    /\ mnt.fs = "ext4"
    /\ Len(calls) = 2
    /\ IsMkdirLayout(calls[2])
    /\ ~history[Len(history)].raised

-----------------------------------------------------------------------------
(* C27 *)

\* s is the beginning of t
ClaimPrefix(s, t) == Len(s) <= Len(t) /\ SubSeq(t, 1, Len(s)) = s

\* the commands of a forced remount, in order; the listing is issued by a
\* real invocation only
ClaimRemountCmds ==
    (IF dry_run THEN <<>> ELSE <<"mount | grep">>)
    \o <<"umount || true", "mkdir -p", "mount -t tmpfs -o size=",
         "mkdir -p {images,snippets,iso,dump}">>

\* C27: with force_remount true, prepare_storage issues the unmount before
\* the mount command whether or not the path was found mounted; an unmount
\* that the session answered does not abort the call, whatever it did; the
\* mkdir of the mount point, the tmpfs mount and the layout mkdir follow in
\* that order; with force_remount false no unmount is issued.
C27_ForcedRemountOrder ==
    /\ force_remount =>
          /\ ClaimPrefix(ClaimCmds, ClaimRemountCmds)
          /\ pc # "storage_mounted"
          /\ (pc = "storage_idle" /\ ~history[Len(history)].raised)
                => ClaimCmds = ClaimRemountCmds
    /\ (calls # <<>> /\ IsUmount(calls[Len(calls)]) /\ (dry_run \/ last_resp.transport))
          => pc = "storage_mkdir"
    /\ ~force_remount => ~Has(calls, IsUmount)
    /\ \A i \in 1..Len(history) :
          Has(history[i].calls, IsUmount) <=>
             (history[i].force_remount /\
              (history[i].dry_run \/ Len(history[i].calls) > 1))

\* a real forced remount of a path at which nothing was mounted: the unmount
\* had nothing to unmount, and the mkdir, the mount and the layout followed
C27_Witness ==
    /\ pc = "storage_idle"
    /\ force_remount
    /\ ~dry_run
    /\ ~is_mounted
    /\ ClaimCmds = ClaimRemountCmds
    /\ ~history[Len(history)].raised
    /\ mnt.fs = "tmpfs"

-----------------------------------------------------------------------------
(* C28 *)

ClaimStrictStep(c) == IsMkdirPoint(c) \/ IsTmpfsMount(c) \/ IsMkdirLayout(c)

\* C28: in prepare_storage a failure of the mkdir of the mount point, of the
\* tmpfs mount or of the layout mkdir ends the invocation with an error right
\* there, no later command of the sequence being issued; an invocation that
\* ended with an error ended at the command it issued last; the unmount is
\* issued so that its own failure is not one (umount ... || true).
C28_FailurePropagates ==
    /\ (/\ calls # <<>>
        /\ ClaimStrictStep(calls[Len(calls)])
        /\ ~dry_run
        /\ ClaimFailed(last_resp))
       => /\ pc = "storage_idle"
          /\ history[Len(history)].raised
          /\ history[Len(history)].calls = calls
    /\ (/\ calls # <<>>
        /\ ClaimStrictStep(calls[Len(calls)])
        /\ (dry_run \/ ~ClaimFailed(last_resp))
        /\ pc = "storage_idle")
       => ~history[Len(history)].raised
    /\ (calls # <<>> /\ IsUmount(calls[Len(calls)]) /\ ~dry_run /\ last_resp.transport)
       => (last_resp.exit_status = 0 /\ pc = "storage_mkdir")

\* the tmpfs mount failed with a non-zero exit status: the invocation ended
\* with an error and the layout mkdir was not issued
C28_Witness ==
    /\ pc = "storage_idle"
    /\ ~dry_run
    /\ IsTmpfsMount(calls[Len(calls)])
    /\ last_resp.transport
    /\ last_resp.exit_status # 0
    /\ history[Len(history)].raised
    /\ ~Has(calls, IsMkdirLayout)

-----------------------------------------------------------------------------
(* C29 *)

\* the place of a command in the run: existence probe, stop, storage
\* preparation, clone+configure, start, IP polling
ClaimRank(c) ==
    IF IsStatus(c) THEN 1
    ELSE IF IsStop(c) THEN 2
    ELSE IF IsSetup(c) THEN 3
    ELSE IF IsClone(c) THEN 4
    ELSE IF IsStart(c) THEN 5
    ELSE IF IsPoll(c) THEN 6
    ELSE 0

\* the run has ended by returning its record
ClaimCompleted == ClaimReturned /\ result.kind = "dict"

\* C29: the commands of a deployment run are issued in the order existence
\* probe, stop (optional), storage preparation, clone+configure, start, IP
\* polling, the storage preparation being the setup command of the run; stop,
\* preparation, clone and start are never issued twice, and a run that
\* completes has issued preparation, clone and start exactly once (and, when
\* real, the probe); the clone is issued only once the existence check is
\* resolved, directly after the preparation; the start is issued only
\* directly after a clone that succeeded.
C29_CommandOrder ==
    /\ \A i, j \in 1..Len(calls) :
          i < j => (ClaimRank(calls[i]) > 0 /\ ClaimRank(calls[i]) <= ClaimRank(calls[j]))
    /\ \A i \in 1..Len(calls) : ClaimRank(calls[i]) > 0
    /\ CountOf(IsStop) <= 1 /\ CountOf(IsSetup) <= 1
    /\ CountOf(IsClone) <= 1 /\ CountOf(IsStart) <= 1
    /\ ClaimCompleted =>
          /\ CountOf(IsSetup) = 1 /\ CountOf(IsClone) = 1 /\ CountOf(IsStart) = 1
          /\ ~dry_run => CountOf(IsStatus) >= 1
    /\ \A j \in 1..Len(calls) :
          IsClone(calls[j]) =>
              /\ PastProbe
              /\ dry_run \/ CountOf(IsStatus) >= 1
              /\ j > 1 /\ IsSetup(calls[j - 1])
    /\ \A j \in 1..Len(calls) : IsStart(calls[j]) => (j > 1 /\ IsClone(calls[j - 1]))
    /\ pc = "start" =>
          /\ calls # <<>> /\ IsClone(calls[Len(calls)])
          /\ dry_run \/ ~ClaimFailed(last_resp)
    /\ (calls # <<>> /\ IsClone(calls[Len(calls)]) /\ ~dry_run /\ ClaimFailed(last_resp))
          => (pc = "done" /\ outcome = "exit1")

\* a real run that found the VM, stopped it and completed after polling
C29_Witness ==
    /\ ClaimCompleted
    /\ ~dry_run
    /\ CountOf(IsStatus) = 2
    /\ CountOf(IsStop) = 1
    /\ CountOf(IsPoll) >= 1
    /\ result.ip # None

-----------------------------------------------------------------------------
(* C30 *)

\* C30: when the VM exists and the force flag is set, deploy_vm issues the
\* stop without asking the operator, and the run goes on after the stop,
\* failed or not: the storage preparation is the command that follows it,
\* and the clone follows a preparation that succeeded.
C30_ForceStopBestEffort ==
    /\ (force /\ vm_exists /\ PastProbe) =>
          /\ answer = "unasked"
          /\ pc = "stop" \/ CountOf(IsStop) = 1
    /\ (calls # <<>> /\ IsStop(calls[Len(calls)])) =>
          (pc = "setup" /\ outcome = "running")
    /\ \A j \in 1..(Len(calls) - 1) : IsStop(calls[j]) => IsSetup(calls[j + 1])
    /\ (calls # <<>> /\ IsSetup(calls[Len(calls)])
        /\ (dry_run \/ ~ClaimFailed(last_resp))) => pc = "clone"

\* a forced real run: the stop of the existing VM failed and the run is at
\* the storage preparation, the operator not having been asked
C30_Witness ==
    /\ force
    /\ ~dry_run
    /\ vm_exists
    /\ calls # <<>>
    /\ IsStop(calls[Len(calls)])
    /\ ClaimFailed(last_resp)
    /\ answer = "unasked"
    /\ pc = "setup"
    /\ outcome = "running"

-----------------------------------------------------------------------------
(* C31 *)

\* what a dry-run leaves undone: the session is never connected, the operator
\* is not asked, and every command passed to the executor carries dry_run, no
\* status query and no poll among them
ClaimNothingRemote ==
    /\ client # "connected"
    /\ answer = "unasked"
    /\ faults = 0
    /\ \A i \in 1..Len(calls) :
          calls[i].dry_run /\ ~IsStatus(calls[i]) /\ ~IsPoll(calls[i])

\* the run returned the record with the poller's sentinel address, having
\* gone through stop, storage preparation, clone and start
ClaimDryRunRecord ==
    /\ outcome = "returned"
    /\ result.kind = "dict"
    /\ result.id = new_vm_id
    /\ result.ip = <<"10.", "DRY.RUN.IP">>
    /\ [i \in 1..Len(calls) |-> ClaimRank(calls[i])] = <<2, 3, 4, 5>>

\* C31 as the specification words it: a dry-run connects nothing, asks
\* nothing and executes nothing, and always ends by returning the record
\* with the sentinel address
C31_Original ==
    (dry_run /\ run >= 1) =>
        /\ ClaimNothingRemote
        /\ pc = "done" => ClaimDryRunRecord

\* C31 (amended): in dry-run mode deploy_vm never connects, never asks the
\* operator and never executes a remote command, for either value of force;
\* for a node that the configuration describes it ends by returning the
\* record whose ip is the poller's sentinel address, after all steps; for a
\* node that the configuration does not describe it ends with exit status 1
\* before any step.
C31_DryRunNoRemote ==
    (dry_run /\ run >= 1) =>
        /\ ClaimNothingRemote
        /\ (pc = "done" /\ node_conf.configured) => ClaimDryRunRecord
        /\ (pc = "done" /\ ~node_conf.configured) =>
              (outcome = "exit1" /\ calls = <<>> /\ client = "None")

\* a dry-run without force for an ID whose VM runs: the record is returned
\* and the VM still runs
C31_Witness ==
    /\ dry_run
    /\ ~force
    /\ run = 1
    /\ pc = "done"
    /\ ClaimDryRunRecord
    /\ client = "closed"
    /\ hv.state = "running"

-----------------------------------------------------------------------------
(* C32 *)

ClaimIsListing(c) == c.cmd = "ls /etc/pve/qemu-server/*.conf"

\* the text has nothing but blanks
ClaimBlank(s) == \A i \in 1..Len(s) : s[i] \in {" ", "\n"}

\* the ID is made of decimal digits only
ClaimAllDigits(id) == id # <<>> /\ \A i \in 1..Len(id) : id[i] \in DigitAtoms

\* the listing was not obtained (the call raised) or listed nothing
ClaimNoListing == ~last_resp.transport \/ ClaimBlank(last_resp.out)

-----------------------------------------------------------------------------
(* C33 *)

\* the answer to the last poll is an error, is empty or is not JSON
ClaimBadReply ==
    \/ ~last_resp.transport
    \/ ClaimBlank(last_resp.out)
    \/ ~ClaimReply.ok

\* the answer to the last poll is a list of interfaces with a qualifying address
ClaimGoodReply ==
    /\ last_resp.transport
    /\ ~ClaimBlank(last_resp.out)
    /\ ClaimReply.ok
    /\ ClaimQualifying # {}

\* the attempts that ended in a sleep
ClaimSleeps == CountOf(IsPoll) - (IF wait_result # <<>> THEN 1 ELSE 0)

\* C33: outside dry-run mode an error, an empty or a malformed answer to one
\* poll does not end wait_for_ip: it goes on polling, or ends by the timeout
\* with None; a poll made before the timeout whose answer holds a qualifying
\* address ends it with that address, whatever the polls before it gave; and
\* every attempt that did not return is followed by one sleep of 3 seconds
\* (a poll itself taking at most one second, the time spent is between 3 and
\* 4 seconds for each such attempt).
C33_ErrorsRetried ==
    (~dry_run /\ calls # <<>>) =>
        /\ ClaimBadReply =>
              /\ wait_result = <<>>
              /\ pc = "wait_done" => elapsed >= timeout
        /\ ClaimGoodReply => (pc = "wait_done" /\ ClaimFoundByPoller(wait_result))
        /\ elapsed >= 3 * ClaimSleeps
        /\ elapsed <= 4 * ClaimSleeps + (IF wait_result # <<>> THEN 1 ELSE 0)
        /\ pc = "poller" => ClaimSleeps = Len(calls)

\* two polls in a row gave nothing, the second a reply cut short; two sleeps
\* later the loop is still polling
C33_Witness ==
    /\ ~dry_run
    /\ ~always_errors
    /\ pc = "poller"
    /\ timeout = 7
    /\ Len(calls) = 2
    /\ last_resp.transport
    /\ ~ClaimBlank(last_resp.out)
    /\ ~ClaimReply.ok
    /\ elapsed = 6

-----------------------------------------------------------------------------
(* C34 *)

\* the line sets a key that a later line of the text sets again
ClaimShadowed(ls, i) ==
    /\ ClaimWellFormed(ls[i])
    /\ \E j \in (i + 1)..Len(ls) :
          ClaimWellFormed(ls[j]) /\ ClaimKey(ls[j]) = ClaimKey(ls[i])

\* the text without the lines whose key is set again further down
ClaimLastOccurrences(text) ==
    LET ls == SplitLines(text)
        keep == {i \in 1..Len(ls) : ~ClaimShadowed(ls, i)}
        RECURSIVE Pick(_)
        Pick(i) == IF i > Len(ls) THEN <<>>
                   ELSE (IF i \in keep THEN <<ls[i]>> ELSE <<>>) \o Pick(i + 1)
    IN JoinLines(Pick(1))

\* C34: when a configuration text sets the same disk key on more than one
\* line, the verdict of check_vm_safety depends on the last occurrence only:
\* it is the verdict of the text with the earlier occurrences removed, so an
\* earlier line that places the disk on another storage does not make it
\* false.
C34_LastOccurrenceDecides ==
    Returned =>
        verdict = CheckVmSafety(<<"100">>, ClaimLastOccurrences(config_text), target_storage)

\* scsi0 is set twice, first on another storage, last on the target storage
\* in the strict pattern: the verdict is true
C34_Witness ==
    /\ Returned
    /\ target_storage = <<"ram">>
    /\ config_text =
          JoinLines(<<KeyLine(<<"scsi", "0">>,
                              <<"local", ":", "vm-", "disk", "-0.", "qcow2", ",", "size", "=32G">>),
                      KeyLine(<<"scsi", "0">>,
                              <<"ram", ":", "vm-", "disk", "-0.", "qcow2", ",", "size", "=32G">>)>>)
    /\ ClaimLastOccurrences(config_text) # config_text
    /\ verdict = TRUE

====
